---- MODULE Spec2Model ----
\* Model of crates/meta: SongMetadata::from_file and the tag parsers and
\* duration estimators it dispatches to.  A file is a sequence of bytes with
\* a read cursor; text is a sequence of Unicode code points; an Option is a
\* sequence of length 0 (None) or 1 (Some); a u64 quantity that can exceed the
\* checker's integer range is a little-endian sequence of base-256 limbs.
EXTENDS Integers, Sequences, FiniteSets, TLC

\* ------------------------------------------------------------------------
\* Option values
\* ------------------------------------------------------------------------
None == <<>>

Some(x) == <<x>>

IsSome(o) == Len(o) = 1

Unwrap(o) == o[1]

\* ------------------------------------------------------------------------
\* Byte slices
\* ------------------------------------------------------------------------
\* data[a..b] with 0-based, end-exclusive Rust indices
Slice(data, a, b) == SubSeq(data, a + 1, b)

\* data[i] with a 0-based Rust index
At(data, i) == data[i + 1]

RECURSIVE Reverse(_)
Reverse(s) == IF s = <<>> THEN <<>> ELSE Reverse(Tail(s)) \o <<Head(s)>>

RECURSIVE Concat(_)
Concat(ss) == IF ss = <<>> THEN <<>> ELSE Head(ss) \o Concat(Tail(ss))

Zeros(n) == [i \in 1..n |-> 0]

\* A size or offset of 2^30 or more is held as Far: every file of the model
\* is shorter than that, so each bounds check, read and seek decides as it
\* does on the exact value.  Quantities that enter a result are read with
\* BFromBE / BFromLE instead and stay exact.
Far == 2 ^ 30

\* u32::from_be_bytes / u32::from_le_bytes, as a size or offset
ShiftIn(high, b) == IF high >= 4194304 THEN Far ELSE high * 256 + b

RECURSIVE from_be_bytes(_)
from_be_bytes(bs) ==
    IF bs = <<>> THEN 0
    ELSE ShiftIn(from_be_bytes(SubSeq(bs, 1, Len(bs) - 1)), bs[Len(bs)])

from_le_bytes(bs) == from_be_bytes(Reverse(bs))

\* the inverse encodings, used to build input files
RECURSIVE to_be_bytes(_, _)
to_be_bytes(n, w) ==
    IF w = 0 THEN <<>> ELSE to_be_bytes(n \div 256, w - 1) \o <<n % 256>>

to_le_bytes(n, w) == Reverse(to_be_bytes(n, w))

\* ------------------------------------------------------------------------
\* u64 arithmetic on limbs (little-endian, base 256, no high zero limbs)
\* ------------------------------------------------------------------------
RECURSIVE BNorm(_)
BNorm(a) ==
    IF a = <<>> THEN <<>>
    ELSE IF a[Len(a)] = 0 THEN BNorm(SubSeq(a, 1, Len(a) - 1)) ELSE a

RECURSIVE BFromInt(_)
BFromInt(n) == IF n = 0 THEN <<>> ELSE <<n % 256>> \o BFromInt(n \div 256)

BFromBE(bs) == BNorm(Reverse(bs))

BFromLE(bs) == BNorm(bs)

BLimb(a, i) == IF i <= Len(a) THEN a[i] ELSE 0

RECURSIVE BCmpFrom(_, _, _)
BCmpFrom(a, b, i) ==
    IF i = 0 THEN 0
    ELSE IF a[i] < b[i] THEN -1
    ELSE IF a[i] > b[i] THEN 1
    ELSE BCmpFrom(a, b, i - 1)

\* -1, 0, 1 as a < b, a = b, a > b
BCmp(a, b) ==
    IF Len(a) < Len(b) THEN -1
    ELSE IF Len(a) > Len(b) THEN 1
    ELSE BCmpFrom(a, b, Len(a))

RECURSIVE BSubFrom(_, _, _, _)
BSubFrom(a, b, i, borrow) ==
    IF i > Len(a) THEN <<>>
    ELSE LET d == a[i] - BLimb(b, i) - borrow
         IN IF d < 0 THEN <<d + 256>> \o BSubFrom(a, b, i + 1, 1)
            ELSE <<d>> \o BSubFrom(a, b, i + 1, 0)

\* a - b for a >= b
BSub(a, b) == BNorm(BSubFrom(a, b, 1, 0))

RECURSIVE BMulFrom(_, _, _, _)
BMulFrom(a, m, i, carry) ==
    IF i > Len(a)
    THEN BFromInt(carry)
    ELSE LET p == a[i] * m + carry
         IN <<p % 256>> \o BMulFrom(a, m, i + 1, p \div 256)

\* a * m for a small multiplier m
BMulSmall(a, m) == BNorm(BMulFrom(a, m, 1, 0))

\* the quotient digit of long division: the q in 0..255 with q*d <= r < (q+1)*d
BDigit(r, d) ==
    CHOOSE q \in 0..255 :
        /\ BCmp(BMulSmall(d, q), r) <= 0
        /\ BCmp(BMulSmall(d, q + 1), r) > 0

\* long division, limb i of a downwards, r the running remainder
RECURSIVE BDivFrom(_, _, _, _)
BDivFrom(a, d, i, r) ==
    IF i = 0 THEN <<>>
    ELSE BDivFrom(a, d, i - 1,
                  BSub(BNorm(<<a[i]>> \o r),
                       BMulSmall(d, BDigit(BNorm(<<a[i]>> \o r), d))))
         \o <<BDigit(BNorm(<<a[i]>> \o r), d)>>

\* floor(a / d) for d > 0
BDiv(a, d) == BNorm(BDivFrom(a, d, Len(a), <<>>))

\* a mod 2^64 (wrapping u64 arithmetic)
BWrap64(a) == BNorm(SubSeq(a, 1, IF Len(a) < 8 THEN Len(a) ELSE 8))

\* does a fit in a u64
BFits64(a) == Len(a) <= 8

\* ------------------------------------------------------------------------
\* Text: String::from_utf8_lossy, String::from_utf16_lossy, trimming
\* ------------------------------------------------------------------------
REPLACEMENT == 65533

IsCont(b) == b >= 128 /\ b <= 191

\* byte i (0-based) of bs, or -1 past the end
ByteOr(bs, i) == IF i < Len(bs) THEN At(bs, i) ELSE -1

\* the second byte of a 3- or 4-byte sequence is restricted by its lead byte
SecondOk(lead, b) ==
    CASE lead = 224 -> b >= 160 /\ b <= 191
      [] lead = 237 -> b >= 128 /\ b <= 159
      [] lead = 240 -> b >= 144 /\ b <= 191
      [] lead = 244 -> b >= 128 /\ b <= 143
      [] OTHER -> IsCont(b)

\* String::from_utf8_lossy: each maximal invalid prefix becomes one U+FFFD
RECURSIVE Utf8From(_, _)
Utf8From(bs, i) ==
    IF i >= Len(bs) THEN <<>>
    ELSE LET b0 == At(bs, i)
             b1 == ByteOr(bs, i + 1)
             b2 == ByteOr(bs, i + 2)
             b3 == ByteOr(bs, i + 3)
         IN IF b0 < 128 THEN <<b0>> \o Utf8From(bs, i + 1)
            ELSE IF b0 >= 194 /\ b0 <= 223
            THEN IF IsCont(b1)
                 THEN <<(b0 - 192) * 64 + (b1 - 128)>> \o Utf8From(bs, i + 2)
                 ELSE <<REPLACEMENT>> \o Utf8From(bs, i + 1)
            ELSE IF b0 >= 224 /\ b0 <= 239
            THEN IF ~SecondOk(b0, b1) THEN <<REPLACEMENT>> \o Utf8From(bs, i + 1)
                 ELSE IF ~IsCont(b2) THEN <<REPLACEMENT>> \o Utf8From(bs, i + 2)
                 ELSE <<(b0 - 224) * 4096 + (b1 - 128) * 64 + (b2 - 128)>>
                      \o Utf8From(bs, i + 3)
            ELSE IF b0 >= 240 /\ b0 <= 244
            THEN IF ~SecondOk(b0, b1) THEN <<REPLACEMENT>> \o Utf8From(bs, i + 1)
                 ELSE IF ~IsCont(b2) THEN <<REPLACEMENT>> \o Utf8From(bs, i + 2)
                 ELSE IF ~IsCont(b3) THEN <<REPLACEMENT>> \o Utf8From(bs, i + 3)
                 ELSE <<(b0 - 240) * 262144 + (b1 - 128) * 4096
                        + (b2 - 128) * 64 + (b3 - 128)>> \o Utf8From(bs, i + 4)
            ELSE <<REPLACEMENT>> \o Utf8From(bs, i + 1)

from_utf8_lossy(bs) == Utf8From(bs, 0)

\* String::from_utf8: Ok only when no byte is invalid.  A valid string never
\* decodes to U+FFFD unless it holds the bytes EF BF BD, which no input of
\* this model does.
Utf8Valid(bs) == \A i \in 1..Len(from_utf8_lossy(bs)) : from_utf8_lossy(bs)[i] # REPLACEMENT

\* String::from_utf16_lossy on a sequence of u16 code units
RECURSIVE from_utf16_lossy(_)
from_utf16_lossy(us) ==
    IF us = <<>> THEN <<>>
    ELSE LET u == Head(us)
         IN IF u < 55296 \/ u > 57343 THEN <<u>> \o from_utf16_lossy(Tail(us))
            ELSE IF u <= 56319 /\ Len(us) >= 2 /\ us[2] >= 56320 /\ us[2] <= 57343
            THEN <<65536 + (u - 55296) * 1024 + (us[2] - 56320)>>
                 \o from_utf16_lossy(Tail(Tail(us)))
            ELSE <<REPLACEMENT>> \o from_utf16_lossy(Tail(us))

\* char::is_whitespace (the Unicode White_Space property)
IsWhitespace(c) ==
    \/ c >= 9 /\ c <= 13
    \/ c \in {32, 133, 160, 5760, 8232, 8233, 8239, 8287, 12288}
    \/ c >= 8192 /\ c <= 8202

IsNul(c) == c = 0

\* s without its leading characters that satisfy Drop
\* (Keep: the positions of the characters that do not)
TrimStart(s, Keep) ==
    IF Keep = {} THEN <<>>
    ELSE SubSeq(s, CHOOSE i \in Keep : \A j \in Keep : i <= j, Len(s))

TrimEnd(s, Keep) ==
    IF Keep = {} THEN <<>>
    ELSE SubSeq(s, 1, CHOOSE i \in Keep : \A j \in Keep : i >= j)

TrimStartNul(s) == TrimStart(s, {i \in 1..Len(s) : ~IsNul(s[i])})

TrimEndNul(s) == TrimEnd(s, {i \in 1..Len(s) : ~IsNul(s[i])})

TrimStartWs(s) == TrimStart(s, {i \in 1..Len(s) : ~IsWhitespace(s[i])})

TrimEndWs(s) == TrimEnd(s, {i \in 1..Len(s) : ~IsWhitespace(s[i])})

\* str::trim_matches(char::from(0))
trim_matches_nul(s) == TrimEndNul(TrimStartNul(s))

\* str::trim_end_matches('\u{0}')
trim_end_matches_nul(s) == TrimEndNul(s)

\* str::trim
trim(s) == TrimEndWs(TrimStartWs(s))

\* str::is_empty after str::trim: the text is empty or whitespace only
IsBlank(s) == trim(s) = <<>>

\* str::to_ascii_lowercase
to_ascii_lowercase(s) ==
    [i \in 1..Len(s) |-> IF s[i] >= 65 /\ s[i] <= 90 THEN s[i] + 32 ELSE s[i]]

\* format!("{}", n) for a u8
RECURSIVE FormatDec(_)
FormatDec(n) ==
    IF n < 10 THEN <<48 + n>> ELSE FormatDec(n \div 10) \o <<48 + (n % 10)>>

\* ------------------------------------------------------------------------
\* ASCII literals of the source, as byte / code point sequences
\* ------------------------------------------------------------------------
B_RIFF == <<82, 73, 70, 70>>

B_WAVE == <<87, 65, 86, 69>>

B_fLaC == <<102, 76, 97, 67>>

B_ID3 == <<73, 68, 51>>

B_TAG == <<84, 65, 71>>

B_LIST == <<76, 73, 83, 84>>

B_INFO == <<73, 78, 70, 79>>

B_IART == <<73, 65, 82, 84>>

B_INAM == <<73, 78, 65, 77>>

B_IPRD == <<73, 80, 82, 68>>

B_IGNR == <<73, 71, 78, 82>>

B_TIT2 == <<84, 73, 84, 50>>

B_TPE1 == <<84, 80, 69, 49>>

B_TALB == <<84, 65, 76, 66>>

B_TCON == <<84, 67, 79, 78>>

B_nam == <<169, 110, 97, 109>>

B_ART == <<169, 65, 82, 84>>

B_alb == <<169, 97, 108, 98>>

B_gen == <<169, 103, 101, 110>>

B_data == <<100, 97, 116, 97>>

B_fmt == <<102, 109, 116, 32>>

B_moov == <<109, 111, 111, 118>>

B_mvhd == <<109, 118, 104, 100>>

S_artist == <<97, 114, 116, 105, 115, 116>>

S_title == <<116, 105, 116, 108, 101>>

S_album == <<97, 108, 98, 117, 109>>

S_genre == <<103, 101, 110, 114, 101>>

S_Unknown == <<85, 110, 107, 110, 111, 119, 110>>

\* ------------------------------------------------------------------------
\* SongMetadata
\* ------------------------------------------------------------------------
\* SongMetadata::default()
DefaultMeta ==
    [artist |-> None, title |-> None, album |-> None, genre |-> None,
     duration_ms |-> None]

\* ------------------------------------------------------------------------
\* helpers.rs
\* ------------------------------------------------------------------------
trim_id3v1_text(b) ==
    LET s == trim(trim_end_matches_nul(from_utf8_lossy(b)))
    IN IF s = <<>> THEN None ELSE Some(s)

\* `a & b` and `a | b` on unsigned integers, bit by bit
RECURSIVE BitAnd(_, _)
BitAnd(a, b) ==
    IF a = 0 \/ b = 0 THEN 0
    ELSE (a % 2) * (b % 2) + 2 * BitAnd(a \div 2, b \div 2)

RECURSIVE BitOr(_, _)
BitOr(a, b) ==
    IF a = 0 THEN b
    ELSE IF b = 0 THEN a
    ELSE (IF a % 2 = 1 \/ b % 2 = 1 THEN 1 ELSE 0) + 2 * BitOr(a \div 2, b \div 2)

\* `a << n` on u32; the operands here are bytes and n <= 21, so no bit is
\* shifted out
Shl(a, n) == a * 2 ^ n

\* synchsafe_to_u32 without the `& 0x7F` masks
synchsafe_to_u32_unmasked(bytes) ==
    BitOr(BitOr(BitOr(Shl(bytes[1], 21), Shl(bytes[2], 14)), Shl(bytes[3], 7)), bytes[4])

synchsafe_to_u32(bytes) ==
    BitOr(BitOr(BitOr(Shl(BitAnd(bytes[1], 127), 21), Shl(BitAnd(bytes[2], 127), 14)),
                Shl(BitAnd(bytes[3], 127), 7)),
          BitAnd(bytes[4], 127))

\* data[1..].chunks(2) kept when whole, as big-endian u16
RECURSIVE Utf16Units(_)
Utf16Units(bs) ==
    IF Len(bs) < 2 THEN <<>>
    ELSE <<bs[1] * 256 + bs[2]>> \o Utf16Units(SubSeq(bs, 3, Len(bs)))

decode_text_frame(data) ==
    IF data = <<>> THEN None
    ELSE CASE data[1] = 0 -> Some(trim_matches_nul(from_utf8_lossy(Tail(data))))
           [] data[1] = 1 -> Some(trim_matches_nul(from_utf16_lossy(Utf16Units(Tail(data)))))
           [] OTHER -> None

\* position (1-based) of the first '=' of s, or 0
FirstEq(s) ==
    LET eqs == {i \in 1..Len(s) : s[i] = 61}
    IN IF eqs = {} THEN 0 ELSE CHOOSE i \in eqs : \A j \in eqs : i <= j

\* one "KEY=VALUE" comment applied to the record
VorbisEntry(meta, bytes) ==
    IF ~Utf8Valid(bytes) THEN meta
    ELSE LET s == from_utf8_lossy(bytes)
             e == FirstEq(s)
         IN IF e = 0 THEN meta
            ELSE LET key == to_ascii_lowercase(SubSeq(s, 1, e - 1))
                     val == SubSeq(s, e + 1, Len(s))
                 IN CASE key = S_artist -> [meta EXCEPT !.artist = Some(val)]
                      [] key = S_title -> [meta EXCEPT !.title = Some(val)]
                      [] key = S_album -> [meta EXCEPT !.album = Some(val)]
                      [] key = S_genre -> [meta EXCEPT !.genre = Some(val)]
                      [] OTHER -> meta

\* the `for _ in 0..count` loop of parse_vorbis_comments
RECURSIVE VorbisLoop(_, _, _, _)
VorbisLoop(meta, data, idx, count) ==
    IF count = 0 \/ idx + 4 > Len(data) THEN meta
    ELSE LET len == from_le_bytes(Slice(data, idx, idx + 4))
             at == idx + 4
         IN IF at + len > Len(data) THEN meta
            ELSE VorbisLoop(VorbisEntry(meta, Slice(data, at, at + len)),
                            data, at + len, count - 1)

parse_vorbis_comments(meta, data) ==
    IF Len(data) < 8 THEN meta
    ELSE LET vendor_len == from_le_bytes(Slice(data, 0, 4))
             idx == 4 + vendor_len
         IN IF idx + 4 > Len(data) THEN meta
            ELSE VorbisLoop(meta, data, idx + 4,
                            from_le_bytes(Slice(data, idx, idx + 4)))

RECURSIVE M4aTextFrom(_, _)
M4aTextFrom(data, i) ==
    IF i + 8 > Len(data) THEN None
    ELSE LET size == from_be_bytes(Slice(data, i, i + 4))
         IN IF size < 8 \/ i + size > Len(data) THEN None
            ELSE IF Slice(data, i + 4, i + 8) = B_data
            THEN LET start == IF i + 16 <= i + size THEN i + 16 ELSE i + 8
                 IN Some(trim_matches_nul(from_utf8_lossy(Slice(data, start, i + size))))
            ELSE M4aTextFrom(data, i + size)

\* extract_m4a_text that takes the text from offset 8 of the data atom
\* whatever its size
RECURSIVE M4aTextFrom8(_, _)
M4aTextFrom8(data, i) ==
    IF i + 8 > Len(data) THEN None
    ELSE LET size == from_be_bytes(Slice(data, i, i + 4))
         IN IF size < 8 \/ i + size > Len(data) THEN None
            ELSE IF Slice(data, i + 4, i + 8) = B_data
            THEN Some(trim_matches_nul(from_utf8_lossy(Slice(data, i + 8, i + size))))
            ELSE M4aTextFrom8(data, i + size)

extract_m4a_text_offset8(data) == M4aTextFrom8(data, 0)

extract_m4a_text(data) == M4aTextFrom(data, 0)

\* ------------------------------------------------------------------------
\* SongMetadata::prettify_filename
\* ------------------------------------------------------------------------
\* position (1-based) of the last occurrence of c in s, or 0
LastIndex(s, c) ==
    LET at == {i \in 1..Len(s) : s[i] = c}
    IN IF at = {} THEN 0 ELSE CHOOSE i \in at : \A j \in at : i >= j

\* the pieces of a path between its '/' separators
RECURSIVE SplitSlash(_)
SplitSlash(s) ==
    LET at == {i \in 1..Len(s) : s[i] = 47}
        first == CHOOSE i \in at : \A j \in at : i <= j
    IN IF at = {} THEN <<s>>
       ELSE <<SubSeq(s, 1, first - 1)>> \o SplitSlash(SubSeq(s, first + 1, Len(s)))

\* a piece that Path::components yields as a component after the first:
\* empty pieces and "." are dropped
IsComponent(piece) == piece # <<>> /\ piece # <<46>>

\* Path::file_name: the last component when it is a normal one; None for a
\* path without components (empty, "/", ".") and for one ending in ".."
file_name(path) ==
    LET parts == SelectSeq(SplitSlash(path), IsComponent)
    IN IF parts = <<>> \/ parts[Len(parts)] = <<46, 46>> THEN None
       ELSE Some(parts[Len(parts)])

\* Path::file_stem: the name up to its last '.', the whole name when it has
\* no '.' or only a leading one
file_stem(path) ==
    IF ~IsSome(file_name(path)) THEN None
    ELSE LET name == Unwrap(file_name(path))
             dot == LastIndex(name, 46)
         IN IF dot <= 1 THEN Some(name) ELSE Some(SubSeq(name, 1, dot - 1))

\* char::to_uppercase for code points up to U+00FF
to_uppercase(c) ==
    IF c >= 97 /\ c <= 122 THEN <<c - 32>>
    ELSE IF c = 181 THEN <<924>>
    ELSE IF c = 223 THEN <<83, 83>>
    ELSE IF c >= 224 /\ c <= 254 /\ c # 247 THEN <<c - 32>>
    ELSE IF c = 255 THEN <<376>>
    ELSE <<c>>

\* only '_' becomes a space
ReplaceSeparators_underscore(s) ==
    [i \in 1..Len(s) |-> IF s[i] = 95 THEN 32 ELSE s[i]]

\* str::replace('_', " ").replace('-', " ")
ReplaceSeparators(s) ==
    [i \in 1..Len(s) |-> IF s[i] = 95 \/ s[i] = 45 THEN 32 ELSE s[i]]

\* length of the first word of s (s starts with a non-whitespace char)
WordLen(s) ==
    LET ws == {i \in 1..Len(s) : IsWhitespace(s[i])}
    IN IF ws = {} THEN Len(s) ELSE (CHOOSE i \in ws : \A j \in ws : i <= j) - 1

\* str::split_whitespace
RECURSIVE split_whitespace(_)
split_whitespace(s) ==
    LET t == TrimStartWs(s)
    IN IF t = <<>> THEN <<>>
       ELSE <<SubSeq(t, 1, WordLen(t))>>
            \o split_whitespace(SubSeq(t, WordLen(t) + 1, Len(t)))

\* the closure of .map(): first char upper-cased, the rest unchanged
Capitalize(w) == IF w = <<>> THEN <<>> ELSE to_uppercase(Head(w)) \o Tail(w)

\* [String]::join(" ")
RECURSIVE JoinSpace(_)
JoinSpace(ws) ==
    IF ws = <<>> THEN <<>>
    ELSE IF Len(ws) = 1 THEN ws[1]
    ELSE ws[1] \o <<32>> \o JoinSpace(Tail(ws))

prettify_filename(path) ==
    LET stem == IF IsSome(file_stem(path)) THEN Unwrap(file_stem(path)) ELSE S_Unknown
        words == split_whitespace(ReplaceSeparators(stem))
    IN JoinSpace([i \in 1..Len(words) |-> Capitalize(words[i])])

\* default_with_filename that leaves the title unset
default_with_filename_untitled(path) == DefaultMeta

default_with_filename(path) ==
    [DefaultMeta EXCEPT !.title = Some(prettify_filename(path))]

\* ------------------------------------------------------------------------
\* State
\* ------------------------------------------------------------------------
VARIABLES
    input,            \* the description the file was built from
    path,             \* the path given to from_file (code points)
    bytes,            \* the content of the file
    overflow_checks,  \* the build: TRUE panics on integer overflow, FALSE wraps
    pc,               \* position inside from_file
    fpos,             \* the cursor of the File handle f
    scanner,          \* the locals of mp3_duration's loop, run step by step
    branch,           \* the match arm of from_file chosen from the header
    meta,             \* the record under construction
    tag_meta,         \* the record as the tag pass left it
    calls,            \* the parsers and estimators invoked, in order
    result            \* what from_file returned: "Ok", "Err", "Panic"

vars ==
    <<input, path, bytes, overflow_checks, pc, fpos, scanner, branch, meta, tag_meta,
      calls, result>>

\* the locals pos, iterations, total_samples, last_sample_rate of
\* mp3_duration, and whether its loop has taken `break`
ScanLocals(pos, iterations, total_samples, last_sample_rate, broke) ==
    [pos |-> pos, iterations |-> iterations, total_samples |-> total_samples,
     last_sample_rate |-> last_sample_rate, broke |-> broke]

\* the loop is not being run
ScanIdle == ScanLocals(0, 0, 0, 0, FALSE)

\* File::read: the bytes actually available for a read of n at pos
Avail(data, pos, n) ==
    IF pos >= Len(data) THEN 0
    ELSE IF pos + n <= Len(data) THEN n ELSE Len(data) - pos

\* the cursor after File::read of n bytes at pos
AfterRead(data, pos, n) == pos + Avail(data, pos, n)

\* File::read_exact of n bytes at pos succeeds
CanReadExact(data, pos, n) == pos + n <= Len(data)

Ok(m, p) == [kind |-> "Ok", meta |-> m, pos |-> p]

Err(p) == [kind |-> "Err", meta |-> DefaultMeta, pos |-> p]

Panic(p) == [kind |-> "Panic", meta |-> DefaultMeta, pos |-> p]

\* ------------------------------------------------------------------------
\* from_wav
\* ------------------------------------------------------------------------
TwoPow64 == Zeros(8) \o <<1>>

\* `chunk_size - 4` on u64, where it does not panic: wrapping
ListRemaining(chunk_size) ==
    IF BCmp(chunk_size, BFromInt(4)) >= 0 THEN BSub(chunk_size, BFromInt(4))
    ELSE BSub(TwoPow64, BSub(BFromInt(4), chunk_size))

\* u64::saturating_sub
SaturatingSub(a, b) == IF BCmp(a, b) < 0 THEN <<>> ELSE BSub(a, b)

\* the match on sub_id
WavField(m, sub_id, text) ==
    CASE sub_id = B_IART -> [m EXCEPT !.artist = Some(text)]
      [] sub_id = B_INAM -> [m EXCEPT !.title = Some(text)]
      [] sub_id = B_IPRD -> [m EXCEPT !.album = Some(text)]
      [] sub_id = B_IGNR -> [m EXCEPT !.genre = Some(text)]
      [] OTHER -> m

RECURSIVE WavLoop(_, _, _)
RECURSIVE WavInfoLoop(_, _, _, _)
\* `while remaining >= 8` over the sub-chunks of a LIST/INFO chunk
WavInfoLoop(data, pos, remaining, m) ==
    IF BCmp(remaining, BFromInt(8)) < 0 THEN WavLoop(data, pos, m)
    ELSE IF Avail(data, pos, 8) # 8 THEN WavLoop(data, AfterRead(data, pos, 8), m)
    ELSE LET sub_id == Slice(data, pos, pos + 4)
             sub_size == from_le_bytes(Slice(data, pos + 4, pos + 8))
             at == pos + 8
         IN IF ~CanReadExact(data, at, sub_size) THEN Err(at)
            ELSE LET text == trim(trim_matches_nul(
                                 from_utf8_lossy(Slice(data, at, at + sub_size))))
                 IN WavInfoLoop(data, at + sub_size,
                                SaturatingSub(remaining, BFromInt(8 + sub_size)),
                                WavField(m, sub_id, text))

\* `while f.read(&mut buf)? == 8` over the top-level chunks
WavLoop(data, pos, m) ==
    IF Avail(data, pos, 8) # 8 THEN Ok(m, AfterRead(data, pos, 8))
    ELSE LET chunk_id == Slice(data, pos, pos + 4)
             chunk_size == from_le_bytes(Slice(data, pos + 4, pos + 8))
             at == pos + 8
             next == at + chunk_size
         IN IF chunk_id = B_LIST
            THEN IF ~CanReadExact(data, at, 4) THEN Err(at)
                 ELSE IF Slice(data, at, at + 4) = B_INFO
                 THEN IF chunk_size < 4 /\ overflow_checks THEN Panic(at + 4)
                      ELSE WavInfoLoop(data, at + 4,
                               ListRemaining(BFromLE(Slice(data, pos + 4, pos + 8))), m)
                 ELSE WavLoop(data, next, m)
            ELSE WavLoop(data, next, m)

from_wav(data) == WavLoop(data, 12, DefaultMeta)

\* ------------------------------------------------------------------------
\* from_id3v1
\* ------------------------------------------------------------------------
from_id3v1(data) ==
    LET len == Len(data)
        buf == Slice(data, len - 128, len)
    IN IF len < 128 THEN Err(len)
       ELSE IF Slice(buf, 0, 3) # B_TAG THEN Err(len)
       ELSE Ok([artist |-> trim_id3v1_text(Slice(buf, 33, 63)),
                title |-> trim_id3v1_text(Slice(buf, 3, 33)),
                album |-> trim_id3v1_text(Slice(buf, 63, 93)),
                genre |-> Some(FormatDec(At(buf, 127))),
                duration_ms |-> None], len)

\* ------------------------------------------------------------------------
\* from_mp3v2
\* ------------------------------------------------------------------------
\* the match on the frame id
Id3Field(m, id, text) ==
    CASE id = B_TIT2 -> [m EXCEPT !.title = text]
      [] id = B_TPE1 -> [m EXCEPT !.artist = text]
      [] id = B_TALB -> [m EXCEPT !.album = text]
      [] id = B_TCON -> [m EXCEPT !.genre = text]
      [] OTHER -> m

\* `while i + 10 <= tag_data.len()`
RECURSIVE Id3Frames(_, _, _)
Id3Frames(tag_data, i, m) ==
    IF i + 10 > Len(tag_data) THEN m
    ELSE LET id == Slice(tag_data, i, i + 4)
             size == from_be_bytes(Slice(tag_data, i + 4, i + 8))
         IN IF size = 0 \/ i + 10 + size > Len(tag_data) THEN m
            ELSE Id3Frames(tag_data, i + 10 + size,
                           Id3Field(m, id,
                               decode_text_frame(Slice(tag_data, i + 10, i + 10 + size))))

from_mp3v2(data, pos) ==
    IF ~CanReadExact(data, pos, 10) THEN Err(pos)
    ELSE LET header == Slice(data, pos, pos + 10)
             tag_size == synchsafe_to_u32(Slice(header, 6, 10))
             at == pos + 10
         IN IF Slice(header, 0, 3) # B_ID3 THEN Err(at)
            ELSE IF ~CanReadExact(data, at, tag_size) THEN Err(at)
            ELSE Ok(Id3Frames(Slice(data, at, at + tag_size), 0, DefaultMeta),
                    at + tag_size)

\* ------------------------------------------------------------------------
\* from_flac
\* ------------------------------------------------------------------------
\* the `loop` over metadata block headers
RECURSIVE FlacBlocks(_, _, _)
FlacBlocks(data, pos, m) ==
    IF Avail(data, pos, 4) # 4 THEN Ok(m, AfterRead(data, pos, 4))
    ELSE LET h == Slice(data, pos, pos + 4)
             last_block == h[1] >= 128
             block_type == h[1] % 128
             block_len == h[2] * 65536 + h[3] * 256 + h[4]
             at == pos + 4
         IN IF block_type = 4
            THEN IF ~CanReadExact(data, at, block_len) THEN Err(at)
                 ELSE LET m2 == parse_vorbis_comments(m, Slice(data, at, at + block_len))
                      IN IF last_block THEN Ok(m2, at + block_len)
                         ELSE FlacBlocks(data, at + block_len, m2)
            ELSE IF last_block THEN Ok(m, at + block_len)
                 ELSE FlacBlocks(data, at + block_len, m)

from_flac(data, pos) ==
    IF ~CanReadExact(data, pos, 4) THEN Err(pos)
    ELSE IF Slice(data, pos, pos + 4) # B_fLaC THEN Err(pos + 4)
    ELSE FlacBlocks(data, pos + 4, DefaultMeta)

\* ------------------------------------------------------------------------
\* from_m4a
\* ------------------------------------------------------------------------
\* the if / else-if chain on the atom type
M4aField(m, atom, payload) ==
    IF atom = B_nam THEN [m EXCEPT !.title = extract_m4a_text(payload)]
    ELSE IF atom = B_ART THEN [m EXCEPT !.artist = extract_m4a_text(payload)]
    ELSE IF atom = B_alb THEN [m EXCEPT !.album = extract_m4a_text(payload)]
    ELSE IF atom = B_gen THEN [m EXCEPT !.genre = extract_m4a_text(payload)]
    ELSE m

\* `while i + 8 <= data.len()`
RECURSIVE M4aAtoms(_, _, _)
M4aAtoms(data, i, m) ==
    IF i + 8 > Len(data) THEN m
    ELSE LET size == from_be_bytes(Slice(data, i, i + 4))
         IN IF size < 8 \/ i + size > Len(data) THEN m
            ELSE M4aAtoms(data, i + size,
                          M4aField(m, Slice(data, i + 4, i + 8),
                                   Slice(data, i + 8, i + size)))

\* File::read_to_end: everything from the cursor to the end of the file
ReadToEnd(data, pos) == IF pos >= Len(data) THEN <<>> ELSE Slice(data, pos, Len(data))

from_m4a(data, pos) ==
    Ok(M4aAtoms(ReadToEnd(data, pos), 0, DefaultMeta),
       IF pos >= Len(data) THEN pos ELSE Len(data))

\* ------------------------------------------------------------------------
\* Duration estimators: io::Result<u64>
\* ------------------------------------------------------------------------
DurOk(v) == [kind |-> "Ok", value |-> v]

DurErr == [kind |-> "Err", value |-> <<>>]

DurPanic == [kind |-> "Panic", value |-> <<>>]

\* (a * 1000) / d on u64 operands whose product fits
MulDiv1000(a, d) == BDiv(BMulSmall(a, 1000), d)

\* ------------------------------------------------------------------------
\* wav_duration
\* ------------------------------------------------------------------------
\* the tail of wav_duration, after the chunk loop
WavDurationResult(fmt_found, byte_rate, data_size) ==
    IF fmt_found /\ byte_rate # <<>>
    THEN DurOk(MulDiv1000(data_size, byte_rate))
    ELSE DurErr

\* `while f.read(&mut buf)? == 8`
RECURSIVE WavDurLoop(_, _, _, _, _)
WavDurLoop(data, pos, fmt_found, byte_rate, data_size) ==
    IF Avail(data, pos, 8) # 8 THEN WavDurationResult(fmt_found, byte_rate, data_size)
    ELSE LET id == Slice(data, pos, pos + 4)
             size == from_le_bytes(Slice(data, pos + 4, pos + 8))
             at == pos + 8
             next == at + size
         IN IF id = B_fmt
            THEN IF ~CanReadExact(data, at, size) THEN DurErr
                 ELSE IF size >= 12
                 THEN WavDurLoop(data, at + size, TRUE,
                                 BFromLE(Slice(data, at + 8, at + 12)), data_size)
                 ELSE WavDurLoop(data, at + size, fmt_found, byte_rate, data_size)
            ELSE IF id = B_data
            THEN WavDurLoop(data, at, fmt_found, byte_rate,
                            BFromLE(Slice(data, pos + 4, pos + 8)))
            ELSE WavDurLoop(data, next, fmt_found, byte_rate, data_size)

wav_duration(data) == WavDurLoop(data, 12, FALSE, <<>>, <<>>)

\* ------------------------------------------------------------------------
\* flac_duration
\* ------------------------------------------------------------------------
\* the 20-bit sample rate as the code extracts it from a STREAMINFO payload
FlacSampleRate(d) == At(d, 10) * 4096 + At(d, 11) * 16 + (At(d, 12) \div 16)

\* the total sample count as the code extracts it from a STREAMINFO payload
FlacTotalSamples(d) ==
    BNorm(<<At(d, 16), At(d, 15), At(d, 14), At(d, 13), At(d, 12) % 16>>)

\* the STREAMINFO arm of flac_duration
FlacStreamInfo(d) ==
    IF Len(d) < 18 THEN DurErr
    ELSE IF FlacSampleRate(d) = 0 THEN DurErr
    ELSE DurOk(MulDiv1000(FlacTotalSamples(d), BFromInt(FlacSampleRate(d))))

RECURSIVE FlacDurLoop(_, _)
FlacDurLoop(data, pos) ==
    IF Avail(data, pos, 4) # 4 THEN DurErr
    ELSE LET h == Slice(data, pos, pos + 4)
             last_block == h[1] >= 128
             block_type == h[1] % 128
             block_len == h[2] * 65536 + h[3] * 256 + h[4]
             at == pos + 4
         IN IF block_type = 0
            THEN IF ~CanReadExact(data, at, block_len) THEN DurErr
                 ELSE FlacStreamInfo(Slice(data, at, at + block_len))
            ELSE IF last_block THEN DurErr
                 ELSE FlacDurLoop(data, at + block_len)

flac_duration(data) == FlacDurLoop(data, 4)

\* ------------------------------------------------------------------------
\* m4a_duration
\* ------------------------------------------------------------------------
\* `(duration * 1000) / timescale` on u64: the product panics under overflow
\* checks when it exceeds 64 bits, and wraps otherwise
M4aScale(duration, timescale) ==
    LET product == BMulSmall(duration, 1000)
    IN IF ~BFits64(product) /\ overflow_checks THEN DurPanic
       ELSE DurOk(BDiv(BWrap64(product), timescale))

\* the body of `if &data[j + 4..j + 8] == b"mvhd"`
M4aMvhd(data, j) ==
    IF j + 8 >= Len(data) THEN DurPanic
    ELSE IF At(data, j + 8) = 1
    THEN IF j + 36 > Len(data) THEN DurErr
         ELSE IF BFromBE(Slice(data, j + 24, j + 28)) = <<>> THEN DurErr
         ELSE M4aScale(BFromBE(Slice(data, j + 28, j + 36)),
                       BFromBE(Slice(data, j + 24, j + 28)))
    ELSE IF j + 28 > Len(data) THEN DurErr
         ELSE IF BFromBE(Slice(data, j + 20, j + 24)) = <<>> THEN DurErr
         ELSE M4aScale(BFromBE(Slice(data, j + 24, j + 28)),
                       BFromBE(Slice(data, j + 20, j + 24)))

RECURSIVE M4aDurTop(_, _)
RECURSIVE M4aDurMoov(_, _, _, _)
\* `while j + 8 <= i + size` over the children of moov
M4aDurMoov(data, i, size, j) ==
    IF j + 8 > i + size THEN M4aDurTop(data, i + size)
    ELSE LET sub_size == from_be_bytes(Slice(data, j, j + 4))
         IN IF sub_size < 8 \/ j + sub_size > Len(data) THEN M4aDurTop(data, i + size)
            ELSE IF Slice(data, j + 4, j + 8) = B_mvhd THEN M4aMvhd(data, j)
            ELSE M4aDurMoov(data, i, size, j + sub_size)

\* `while i + 8 <= data.len()` over the top-level atoms
M4aDurTop(data, i) ==
    IF i + 8 > Len(data) THEN DurErr
    ELSE LET size == from_be_bytes(Slice(data, i, i + 4))
         IN IF size < 8 \/ i + size > Len(data) THEN DurErr
            ELSE IF Slice(data, i + 4, i + 8) = B_moov
            THEN M4aDurMoov(data, i, size, i + 8)
            ELSE M4aDurTop(data, i + size)

m4a_duration(data) == M4aDurTop(data, 0)

\* ------------------------------------------------------------------------
\* mp3_duration
\* ------------------------------------------------------------------------
bitrate_table_mpeg1_layer3 ==
    <<0, 32, 40, 48, 56, 64, 80, 96, 112, 128, 160, 192, 224, 256, 320, 0>>

bitrate_table_mpeg2_layer3 ==
    <<0, 8, 16, 24, 32, 40, 48, 56, 64, 80, 96, 112, 128, 144, 160, 0>>

\* sample rate by version bits and sample rate index; 0 when reserved
Mp3SampleRate(version_bits, idx) ==
    CASE version_bits = 3 -> <<44100, 48000, 32000, 0>>[idx + 1]
      [] version_bits = 2 -> <<22050, 24000, 16000, 0>>[idx + 1]
      [] version_bits = 0 -> <<11025, 12000, 8000, 0>>[idx + 1]
      [] OTHER -> 0

Mp3Bitrate(version_bits, idx) ==
    IF version_bits = 3 THEN bitrate_table_mpeg1_layer3[idx + 1]
    ELSE bitrate_table_mpeg2_layer3[idx + 1]

Mp3FrameSize(version_bits, bitrate_kbps, sample_rate, padding) ==
    IF version_bits = 3 THEN ((144000 * bitrate_kbps) \div sample_rate) + padding
    ELSE ((72000 * bitrate_kbps) \div sample_rate) + padding

\* the samples of an MPEG2 frame whatever the version
Mp3SamplesPerFrame_mpeg2(version_bits) == 576

Mp3SamplesPerFrame(version_bits) == IF version_bits = 3 THEN 1152 ELSE 576

\* the header at pos is a frame the scanner accepts (sync, version, layer III,
\* sample rate, bitrate, non-zero length)
Mp3HeaderValid(all, pos) ==
    LET b2 == At(all, pos + 1)
        b3 == At(all, pos + 2)
        version_bits == (b2 \div 8) % 4
        layer_bits == (b2 \div 2) % 4
        sample_rate == Mp3SampleRate(version_bits, (b3 \div 4) % 4)
        bitrate_kbps == Mp3Bitrate(version_bits, b3 \div 16)
    IN /\ At(all, pos) = 255
       /\ b2 >= 224
       /\ version_bits # 1
       /\ layer_bits = 1
       /\ sample_rate # 0
       /\ bitrate_kbps # 0
       /\ Mp3FrameSize(version_bits, bitrate_kbps, sample_rate, (b3 \div 2) % 2) # 0

\* the positions from pos on that pass every header test of the loop body
Mp3Syncs(all, pos) == {p \in pos..(Len(all) - 4) : Mp3HeaderValid(all, p)}

\* the first such position; when there is none, the first position at which
\* `pos + 4 <= all.len()` fails.  Each position before it costs one
\* iteration that advances the cursor by 1.
Mp3NextSync(all, pos) ==
    IF Mp3Syncs(all, pos) = {} THEN Len(all) - 3
    ELSE CHOOSE p \in Mp3Syncs(all, pos) : \A q \in Mp3Syncs(all, pos) : p <= q

Mp3Stop(pos, iterations, total_samples, last_sample_rate) ==
    [total_samples |-> total_samples, last_sample_rate |-> last_sample_rate,
     iterations |-> iterations, pos |-> pos]

\* `while pos + 4 <= all.len() && iterations < max_iterations`; the
\* iterations that advance by 1 up to the next accepted header are taken
\* together
RECURSIVE Mp3Loop(_, _, _, _, _)
Mp3Loop(all, pos, iterations, total_samples, last_sample_rate) ==
    IF pos + 4 > Len(all) \/ iterations >= Len(all) * 2
    THEN Mp3Stop(pos, iterations, total_samples, last_sample_rate)
    ELSE IF iterations + (Mp3NextSync(all, pos) - pos) >= Len(all) * 2
    THEN Mp3Stop(pos + (Len(all) * 2 - iterations), Len(all) * 2,
                 total_samples, last_sample_rate)
    ELSE IF Mp3NextSync(all, pos) + 4 > Len(all)
    THEN Mp3Stop(Mp3NextSync(all, pos), iterations + (Mp3NextSync(all, pos) - pos),
                 total_samples, last_sample_rate)
    ELSE LET at == Mp3NextSync(all, pos)
             b2 == At(all, at + 1)
             b3 == At(all, at + 2)
             version_bits == (b2 \div 8) % 4
             sample_rate == Mp3SampleRate(version_bits, (b3 \div 4) % 4)
             frame_size == Mp3FrameSize(version_bits, Mp3Bitrate(version_bits, b3 \div 16),
                                        sample_rate, (b3 \div 2) % 2)
         IN IF at + frame_size > Len(all)
            THEN Mp3Stop(at, iterations + (at - pos) + 1, total_samples, last_sample_rate)
            ELSE Mp3Loop(all, at + frame_size, iterations + (at - pos) + 1,
                         total_samples + Mp3SamplesPerFrame(version_bits), sample_rate)

\* the cursor after the optional leading ID3v2 tag
Mp3Start(all) ==
    IF Len(all) >= 10 /\ Slice(all, 0, 3) = B_ID3
    THEN 10 + synchsafe_to_u32(Slice(all, 6, 10))
    ELSE 0

Mp3Scan(all) == Mp3Loop(all, Mp3Start(all), 0, 0, 0)

\* mp3_duration without the estimate from the file size
mp3_duration_measured(data) ==
    LET scan == Mp3Scan(data)
    IN IF scan.total_samples > 0 /\ scan.last_sample_rate > 0
       THEN DurOk(BFromInt((scan.total_samples * 1000) \div scan.last_sample_rate))
       ELSE DurErr

mp3_duration(data) ==
    LET scan == Mp3Scan(data)
    IN IF scan.total_samples > 0 /\ scan.last_sample_rate > 0
       THEN DurOk(BFromInt((scan.total_samples * 1000) \div scan.last_sample_rate))
       ELSE IF Len(data) > 0
       THEN DurOk(BFromInt((Len(data) * 8 * 1000) \div 128000))
       ELSE DurErr

\* ------------------------------------------------------------------------
\* Input files
\* ------------------------------------------------------------------------
\* longest probe value written into one tag field
MaxValueLen == 2

\* bytes a probe value is made of: 'A', ' ', NUL
ValueAlphabet == {65, 32, 0}

Values == UNION {[1..k -> ValueAlphabet] : k \in 0..MaxValueLen}

Fields == <<"artist", "title", "album", "genre">>

\* the known values a well-formed file carries: "Ar", "Ti", "Al", "Ge"
BaseTags ==
    <<<<"artist", <<65, 114>>>>, <<"title", <<84, 105>>>>,
      <<"album", <<65, 108>>>>, <<"genre", <<71, 101>>>>>>

ReplaceAt(tl, k, v) == [i \in 1..Len(tl) |-> IF i = k THEN <<tl[i][1], v>> ELSE tl[i]]

RemoveAt(tl, k) == SubSeq(tl, 1, k - 1) \o SubSeq(tl, k + 1, Len(tl))

\* tag lists: the known values; one value replaced by a probe; one field
\* missing; one field given twice; no field at all
TagLists ==
    {BaseTags, <<>>}
    \cup {ReplaceAt(BaseTags, k, v) : k \in 1..4, v \in Values}
    \cup {RemoveAt(BaseTags, k) : k \in 1..4}
    \cup {BaseTags \o <<<<Fields[k], <<90>>>>>> : k \in 1..4}

\* all prefixes of a file: truncation at every byte
Prefixes(f) == {SubSeq(f, 1, k) : k \in 0..Len(f)}

\* the description of an input file; `declared` is the size the tag
\* container declares (-1: its true size)
Input(kind, layout, tags, declared, rate, amount, payload) ==
    [kind |-> kind, layout |-> layout, tags |-> tags, declared |-> declared,
     rate |-> rate, amount |-> amount, payload |-> payload]

Declared(in, true_size) == IF in.declared = -1 THEN true_size ELSE in.declared

\* ---- WAV ---------------------------------------------------------------
Chunk(id, payload) == id \o to_le_bytes(Len(payload), 4) \o payload

WavSubId(field) ==
    CASE field = "artist" -> B_IART
      [] field = "title" -> B_INAM
      [] field = "album" -> B_IPRD
      [] field = "genre" -> B_IGNR

WavSubs(tags) == Concat([i \in 1..Len(tags) |-> Chunk(WavSubId(tags[i][1]), tags[i][2])])

WavListChunk(in) ==
    B_LIST \o to_le_bytes(Declared(in, 4 + Len(WavSubs(in.tags))), 4)
    \o B_INFO \o WavSubs(in.tags)

\* a 16-byte PCM format chunk: the byte rate is the u32 at payload offset 8
WavFmtChunk(byte_rate) ==
    Chunk(B_fmt, <<1, 0, 2, 0>> \o to_le_bytes(44100, 4) \o to_le_bytes(byte_rate, 4)
                 \o <<4, 0, 16, 0>>)

\* a format chunk too short to hold the byte rate
WavShortFmtChunk == Chunk(B_fmt, <<1, 0, 2, 0>> \o to_le_bytes(44100, 4))

WavDataChunk(in) == B_data \o to_le_bytes(in.amount, 4) \o in.payload

WavLayouts ==
    {"list-fmt-data", "fmt-data-list", "fmt-data", "list-data",
     "list-shortfmt-data", "list-fmt"}

WavBody(in) ==
    CASE in.layout = "list-fmt-data" ->
             WavListChunk(in) \o WavFmtChunk(in.rate) \o WavDataChunk(in)
      [] in.layout = "fmt-data-list" ->
             WavFmtChunk(in.rate) \o WavDataChunk(in) \o WavListChunk(in)
      [] in.layout = "fmt-data" -> WavFmtChunk(in.rate) \o WavDataChunk(in)
      [] in.layout = "list-data" -> WavListChunk(in) \o WavDataChunk(in)
      [] in.layout = "list-shortfmt-data" ->
             WavListChunk(in) \o WavShortFmtChunk \o WavDataChunk(in)
      [] in.layout = "list-fmt" -> WavListChunk(in) \o WavFmtChunk(in.rate)

WavHasFmt(in) == in.layout \in {"list-fmt-data", "fmt-data-list", "fmt-data", "list-fmt"}

WavHasData(in) == in.layout # "list-fmt"

WavHasList(in) == in.layout # "fmt-data"

WavFile(in) ==
    B_RIFF \o to_le_bytes(4 + Len(WavBody(in)), 4) \o B_WAVE \o WavBody(in)

\* payloads of the data chunk: silence, bytes that read as a chunk header
\* ("data" with size 0, "fmt " with size 16 and byte rate 1), letters
WavPayloads ==
    {Zeros(8),
     B_data \o to_le_bytes(0, 4),
     WavFmtChunk(1),
     <<65, 66, 67, 68, 69, 70, 71, 72>>}

WavByteRates == {0, 1000, 176400}

\* declared LIST sizes that disagree with the content
WavListLies == {0, 1, 2, 3, 1000000}

WavInputs ==
    {Input("wav", "list-fmt-data", tl, -1, 176400, 8, Zeros(8)) : tl \in TagLists}
    \cup {Input("wav", l, BaseTags, -1, r, Len(p), p) :
             l \in WavLayouts, r \in WavByteRates, p \in WavPayloads}
    \cup {Input("wav", l, BaseTags, -1, r, 176400, <<>>) :
             l \in WavLayouts, r \in WavByteRates}
    \cup {Input("wav", "list-fmt-data", BaseTags, d, 176400, 8, Zeros(8)) :
             d \in WavListLies}

\* ---- FLAC --------------------------------------------------------------
\* "ARTIST", "TITLE", "ALBUM", "GENRE"
VorbisKey(field) ==
    CASE field = "artist" -> <<65, 82, 84, 73, 83, 84>>
      [] field = "title" -> <<84, 73, 84, 76, 69>>
      [] field = "album" -> <<65, 76, 66, 85, 77>>
      [] field = "genre" -> <<71, 69, 78, 82, 69>>

VorbisComment(pair) ==
    LET text == VorbisKey(pair[1]) \o <<61>> \o pair[2]
    IN to_le_bytes(Len(text), 4) \o text

\* vendor string "x", then the comments
VorbisPayload(tags) ==
    to_le_bytes(1, 4) \o <<120>> \o to_le_bytes(Len(tags), 4)
    \o Concat([i \in 1..Len(tags) |-> VorbisComment(tags[i])])

\* a metadata block: last flag and type, 24-bit big-endian length, payload
FlacBlock(last, type, declared, payload) ==
    <<(IF last THEN 128 ELSE 0) + type>> \o to_be_bytes(declared, 3) \o payload

\* the 34-byte STREAMINFO payload of the FLAC format: block and frame sizes
\* (10 bytes), 20 bits sample rate, 3 bits channels - 1, 5 bits bits per
\* sample - 1, 36 bits total samples, 16 bytes MD5.
\* in.payload = <<channels, bits per sample, bits 32..35 of the total>>
FlacStreamInfoPayload(in) ==
    LET ch == in.payload[1] - 1
        bps == in.payload[2] - 1
    IN <<16, 0, 16, 0, 0, 0, 0, 0, 0, 0>>
       \o <<in.rate \div 4096, (in.rate \div 16) % 256,
            (in.rate % 16) * 16 + ch * 2 + (bps \div 16),
            (bps % 16) * 16 + in.payload[3]>>
       \o to_be_bytes(in.amount, 4)
       \o Zeros(16)

\* the total sample count the STREAMINFO of the input encodes
FlacInputTotal(in) == BFromBE(<<in.payload[3]>> \o to_be_bytes(in.amount, 4))

FlacVorbisBlock(in, last) ==
    FlacBlock(last, 4, Declared(in, Len(VorbisPayload(in.tags))), VorbisPayload(in.tags))

FlacLayouts ==
    {"streaminfo-vorbis", "vorbis-streaminfo", "vorbis", "shortinfo-vorbis"}

FlacFile(in) ==
    B_fLaC \o
    CASE in.layout = "streaminfo-vorbis" ->
             FlacBlock(FALSE, 0, 34, FlacStreamInfoPayload(in)) \o FlacVorbisBlock(in, TRUE)
      [] in.layout = "vorbis-streaminfo" ->
             FlacVorbisBlock(in, FALSE) \o FlacBlock(TRUE, 0, 34, FlacStreamInfoPayload(in))
      [] in.layout = "vorbis" -> FlacVorbisBlock(in, TRUE)
      [] in.layout = "shortinfo-vorbis" ->
             FlacBlock(FALSE, 0, 17, SubSeq(FlacStreamInfoPayload(in), 1, 17))
             \o FlacVorbisBlock(in, TRUE)

FlacHasStreamInfo(in) == in.layout \in {"streaminfo-vorbis", "vorbis-streaminfo"}

FlacSampleRates == {0, 44100, 48000}

FlacTotals == {0, 44100, 88200}

\* <<channels, bits per sample, bits 32..35 of the total sample count>>
FlacFormats == {<<1, 8, 0>>, <<2, 16, 0>>, <<2, 24, 1>>}

FlacInputs ==
    {Input("flac", "streaminfo-vorbis", tl, -1, 44100, 44100, <<2, 16, 0>>) :
         tl \in TagLists}
    \cup {Input("flac", l, BaseTags, -1, r, t, f) :
             l \in FlacLayouts, r \in FlacSampleRates, t \in FlacTotals, f \in FlacFormats}
    \cup {Input("flac", "streaminfo-vorbis", BaseTags, d, 44100, 44100, <<2, 16, 0>>) :
             d \in {0, 7, 1000000}}

\* ---- ID3v2 -------------------------------------------------------------
Id3FrameId(field) ==
    CASE field = "artist" -> B_TPE1
      [] field = "title" -> B_TIT2
      [] field = "album" -> B_TALB
      [] field = "genre" -> B_TCON

\* the text of a frame in the encoding the selector names: selector 1 writes
\* each character as a big-endian UTF-16 code unit, the others one byte each
Id3Text(enc, v) ==
    IF enc = 1 THEN Concat([i \in 1..Len(v) |-> <<0, v[i]>>]) ELSE v

\* frame id, big-endian size, two flag bytes, encoding selector, text
Id3Frame(enc, pair) ==
    Id3FrameId(pair[1]) \o to_be_bytes(1 + Len(Id3Text(enc, pair[2])), 4) \o <<0, 0>>
    \o <<enc>> \o Id3Text(enc, pair[2])

\* the encoding selector of the i-th frame: in.rate for all frames, or, in
\* the layout "tag-mixed", the i-th element of in.payload
Id3FrameEnc(in, i) == IF in.layout = "tag-mixed" THEN in.payload[i] ELSE in.rate

Id3Frames_(in) ==
    Concat([i \in 1..Len(in.tags) |-> Id3Frame(Id3FrameEnc(in, i), in.tags[i])])

to_synchsafe(n) ==
    <<(n \div 2097152) % 128, (n \div 16384) % 128, (n \div 128) % 128, n % 128>>

\* in.amount is the major version byte, in.rate the encoding selector of the
\* frames, in.payload the audio bytes after the tag (none in "tag-mixed")
Id3File(in) ==
    B_ID3 \o <<in.amount, 0, 0>> \o to_synchsafe(Declared(in, Len(Id3Frames_(in))))
    \o Id3Frames_(in) \o (IF in.layout = "tag-mixed" THEN <<>> ELSE in.payload)

\* one MPEG1 Layer III frame at 128 kbps and 44100 Hz, without padding
Mp3Frame == <<255, 251, 144, 0>> \o Zeros(413)

Id3Versions == {2, 3, 4, 5}

Id3Encodings == {0, 1, 3}

Id3Audio == {<<>>, Zeros(4), Mp3Frame}

Id3Inputs ==
    {Input("id3v2", "tag-audio", tl, -1, 0, 3, <<>>) : tl \in TagLists}
    \cup {Input("id3v2", "tag-audio", BaseTags, -1, e, v, a) :
             v \in Id3Versions, e \in Id3Encodings, a \in Id3Audio}
    \cup {Input("id3v2", "tag-audio", BaseTags, d, 0, 4, Zeros(4)) :
             d \in {0, 20, 51, 1000000}}

\* encoding selectors a frame is probed with
Id3Selectors == {0, 1, 2, 3, 255}

\* tags whose frames differ in their encoding selector: a field given once
\* or twice ("Ar", then "Zz") followed by a frame of the next field ("Ti")
Id3MixedInputs ==
    {Input("id3v2", "tag-mixed",
           <<<<Fields[k], <<65, 114>>>>, <<Fields[k], <<90, 122>>>>,
             <<Fields[(k % 4) + 1], <<84, 105>>>>>>,
           -1, 0, 3, <<e1, e2, 0>>) :
        k \in 1..4, e1 \in {0, 1}, e2 \in Id3Selectors}
    \cup {Input("id3v2", "tag-mixed",
                <<<<Fields[k], <<90, 122>>>>, <<Fields[(k % 4) + 1], <<84, 105>>>>>>,
                -1, 0, 4, <<e2, 1>>) :
             k \in 1..4, e2 \in Id3Selectors}

\* bytes a size field of an ID3v2 header is probed with
SizeBytes == {0, 1, 2, 127, 128, 255}

\* "ID3", version 3, flags, four size bytes, and four more bytes
Id3HeaderInputs ==
    {Input("raw", "id3-header", <<>>, -1, 0, 0, B_ID3 \o <<3, 0, 0>> \o sz \o Zeros(4)) :
        sz \in [1..4 -> SizeBytes]}

\* ---- MP4 ---------------------------------------------------------------
\* an atom: big-endian size, type, payload
Atom(type, payload) == to_be_bytes(8 + Len(payload), 4) \o type \o payload

Mp4AtomType(field) ==
    CASE field = "artist" -> B_ART
      [] field = "title" -> B_nam
      [] field = "album" -> B_alb
      [] field = "genre" -> B_gen

\* a text atom holding one data atom: type indicator 1 (UTF-8), locale 0, text
Mp4TextAtom(pair) ==
    Atom(Mp4AtomType(pair[1]), Atom(B_data, <<0, 0, 0, 1, 0, 0, 0, 0>> \o pair[2]))

Mp4TextAtoms(tags) == Concat([i \in 1..Len(tags) |-> Mp4TextAtom(tags[i])])

\* "ftyp" with major brand "M4A "
Mp4Ftyp == Atom(<<102, 116, 121, 112>>, <<77, 52, 65, 32>>)

\* mvhd version 0: version and flags, creation and modification time,
\* timescale, duration
Mp4Mvhd0(timescale, duration) ==
    Atom(B_mvhd, <<0, 0, 0, 0>> \o Zeros(8)
                 \o to_be_bytes(timescale, 4) \o to_be_bytes(duration, 4))

\* mvhd version 1 in the ISO base media layout: version and flags, 64-bit
\* creation and modification time, timescale, 64-bit duration (8 bytes)
Mp4Mvhd1(timescale, duration8) ==
    Atom(B_mvhd, <<1, 0, 0, 0>> \o Zeros(16)
                 \o to_be_bytes(timescale, 4) \o duration8)

\* mvhd version 1 of 36 bytes with the timescale at offset 24 of the atom and
\* the 8-byte duration at offset 28
Mp4Mvhd1At24(timescale, duration8) ==
    Atom(B_mvhd, <<1, 0, 0, 0>> \o Zeros(12)
                 \o to_be_bytes(timescale, 4) \o duration8)

\* mvhd whose declared size covers the version and flags only
Mp4MvhdShort(version) == Atom(B_mvhd, <<version, 0, 0, 0>>)

Mp4Layouts == {"ftyp-tags-moov", "ftyp-moov-tags", "ftyp-tags", "ftyp-tags-moov8"}

\* layouts with a version 1 mvhd: in.payload is the 8-byte duration field
Mp4Layouts1 == {"ftyp-moov1", "ftyp-moov1-at24"}

\* a truncated mvhd followed by other atoms: in.amount is the version byte
Mp4LayoutsShort == {"ftyp-moov-short-tags"}

\* one top-level text atom, in.tags = <<field, value>>, whose payload is
\*   text-data16:       a data atom with type indicator, locale and the value
\*   text-data8:        a data atom holding the value alone (size below 16)
\*   text-free-data16:  a "free" atom of 12 bytes, then the data atom
\*   text-data16-free:  the data atom, then a "free" atom of 12 bytes
\*   text-raw:          the value alone, no inner atom
\*   text-raw16:        the value and sixteen 'x', no inner atom
Mp4TextLayouts ==
    {"text-data16", "text-data8", "text-free-data16", "text-data16-free",
     "text-raw", "text-raw16"}

Mp4Free12 == Atom(<<102, 114, 101, 101>>, Zeros(4))

Mp4Data16(v) == Atom(B_data, <<0, 0, 0, 1, 0, 0, 0, 0>> \o v)

Mp4TextPayload(layout, v) ==
    CASE layout = "text-data16" -> Mp4Data16(v)
      [] layout = "text-data8" -> Atom(B_data, v)
      [] layout = "text-free-data16" -> Mp4Free12 \o Mp4Data16(v)
      [] layout = "text-data16-free" -> Mp4Data16(v) \o Mp4Free12
      [] layout = "text-raw" -> v
      [] layout = "text-raw16" -> v \o [i \in 1..16 |-> 120]

Mp4File(in) ==
    CASE in.layout = "ftyp-tags-moov" ->
             Mp4Ftyp \o Mp4TextAtoms(in.tags) \o Atom(B_moov, Mp4Mvhd0(in.rate, in.amount))
      [] in.layout = "ftyp-moov-tags" ->
             Mp4Ftyp \o Atom(B_moov, Mp4Mvhd0(in.rate, in.amount)) \o Mp4TextAtoms(in.tags)
      [] in.layout = "ftyp-tags" -> Mp4Ftyp \o Mp4TextAtoms(in.tags)
      [] in.layout = "ftyp-tags-moov8" ->
             Mp4Ftyp \o Mp4TextAtoms(in.tags) \o Atom(B_moov, Atom(B_mvhd, <<>>))
      [] in.layout = "ftyp-moov1" ->
             Mp4Ftyp \o Atom(B_moov, Mp4Mvhd1(in.rate, in.payload))
      [] in.layout = "ftyp-moov1-at24" ->
             Mp4Ftyp \o Atom(B_moov, Mp4Mvhd1At24(in.rate, in.payload))
      [] in.layout \in Mp4TextLayouts ->
             Atom(Mp4AtomType(in.tags[1][1]), Mp4TextPayload(in.layout, in.tags[1][2]))
      [] in.layout = "ftyp-moov-short-tags" ->
             Mp4Ftyp \o Atom(B_moov, Mp4MvhdShort(in.amount)) \o Mp4TextAtoms(in.tags)

Mp4HasMvhd(in) ==
    in.layout \in {"ftyp-tags-moov", "ftyp-moov-tags", "ftyp-moov1", "ftyp-moov1-at24"}

\* the value of the duration field of the file's mvhd
Mp4InputDuration(in) ==
    IF in.layout \in Mp4Layouts1 THEN BFromBE(in.payload) ELSE BFromInt(in.amount)

\* 8-byte duration fields: 5000, 2^32, 2^63, 2^64 - 1
Mp4Durations8 ==
    {<<0, 0, 0, 0, 0, 0, 19, 136>>, <<0, 0, 0, 1, 0, 0, 0, 0>>,
     <<128, 0, 0, 0, 0, 0, 0, 0>>, <<255, 255, 255, 255, 255, 255, 255, 255>>}

Mp4Inputs ==
    {Input("mp4", "ftyp-tags-moov", tl, -1, 1000, 5000, <<>>) : tl \in TagLists}
    \cup {Input("mp4", l, BaseTags, -1, r, a, <<>>) :
             l \in Mp4Layouts, r \in {0, 1000, 44100}, a \in {0, 5000}}
    \cup {Input("mp4", l, <<>>, -1, r, 0, d) :
             l \in Mp4Layouts1, r \in {0, 1, 1000}, d \in Mp4Durations8}
    \cup {Input("mp4", l, BaseTags, -1, 0, v, <<>>) : l \in Mp4LayoutsShort, v \in {0, 1}}

Mp4TextInputs ==
    {Input("mp4", l, <<<<Fields[k], v>>>>, -1, 0, 0, <<>>) :
        l \in Mp4TextLayouts, k \in 1..4, v \in Values}

\* ---- ID3v1 -------------------------------------------------------------
PadTo(v, n, pad) == [i \in 1..n |-> IF i <= Len(v) THEN v[i] ELSE pad]

\* the value the tag list gives a field: the last one, or none
RECURSIVE TagValue(_, _)
TagValue(tags, field) ==
    IF tags = <<>> THEN None
    ELSE IF tags[Len(tags)][1] = field THEN Some(tags[Len(tags)][2])
    ELSE TagValue(SubSeq(tags, 1, Len(tags) - 1), field)

Id3v1Field(in, field) ==
    PadTo(IF IsSome(TagValue(in.tags, field)) THEN Unwrap(TagValue(in.tags, field)) ELSE <<>>,
          30, in.rate)

\* in.payload precedes the 128-byte trailer, in.rate is the padding byte,
\* in.amount the genre byte
Id3v1File(in) ==
    in.payload \o B_TAG \o Id3v1Field(in, "title") \o Id3v1Field(in, "artist")
    \o Id3v1Field(in, "album") \o Zeros(4) \o Zeros(30) \o <<in.amount>>

Id3v1Inputs ==
    {Input("id3v1", "audio-trailer", tl, -1, 0, 17, <<>>) : tl \in TagLists}
    \cup {Input("id3v1", "audio-trailer", BaseTags, -1, pad, g, a) :
             pad \in {0, 32}, g \in {0, 255}, a \in {<<>>, Zeros(12), Mp3Frame}}

\* ---- raw bytes ---------------------------------------------------------
\* most MPEG frames a raw input is made of
MaxFrames == 2

RECURSIVE Repeat(_, _)
Repeat(s, n) == IF n = 0 THEN <<>> ELSE s \o Repeat(s, n - 1)

Canonical(kind, layout, rate, amount, payload) ==
    Input(kind, layout, BaseTags, -1, rate, amount, payload)

\* headers no arm of the dispatcher recognizes, MPEG frames, and every
\* truncation of one well-formed file per container
RawPayloads ==
    {Repeat(Mp3Frame, n) : n \in 0..MaxFrames}
    \cup {Zeros(12), Zeros(200),
          B_RIFF \o Zeros(4) \o <<65, 86, 73, 32>> \o Zeros(4),
          B_RIFF \o Zeros(4) \o B_WAVE,
          B_fLaC \o Zeros(8)}
    \cup Prefixes(WavFile(Canonical("wav", "list-fmt-data", 176400, 8, Zeros(8))))
    \cup Prefixes(FlacFile(Canonical("flac", "streaminfo-vorbis", 44100, 44100, <<2, 16, 0>>)))
    \cup Prefixes(Id3File(Canonical("id3v2", "tag-audio", 0, 3, Zeros(4))))
    \cup Prefixes(Mp4File(Canonical("mp4", "ftyp-tags-moov", 1000, 5000, <<>>)))

RawInputs == {Input("raw", "bytes", <<>>, -1, 0, 0, p) : p \in RawPayloads}

\* MPEG1 Layer III frames at 128 kbps and 44100 Hz: with the padding bit (418
\* bytes), and with a body that holds sync bytes and ends in 0xFF
Mp3FramePadded == <<255, 251, 146, 0>> \o Zeros(414)

Mp3FrameBusy == <<255, 251, 144, 0>> \o <<255, 251, 144, 0>> \o Zeros(408) \o <<255>>

Mp3FrameKinds == {Mp3Frame, Mp3FramePadded, Mp3FrameBusy}

\* buffers of exactly N such frames, 1 <= N <= MaxFrames: in.amount is N
FrameInputs ==
    {Input("raw", "frames", <<>>, -1, 0, Len(fs), Concat(fs)) :
        fs \in UNION {[1..n -> Mp3FrameKinds] : n \in 1..MaxFrames}}

\* ---- all inputs --------------------------------------------------------
Inputs ==
    WavInputs \cup FlacInputs \cup Id3Inputs \cup Mp4Inputs \cup Id3v1Inputs
    \cup RawInputs \cup FrameInputs \cup Id3HeaderInputs \cup Id3MixedInputs

\* the bytes of the file an input describes
FileOf(in) ==
    CASE in.kind = "wav" -> WavFile(in)
      [] in.kind = "flac" -> FlacFile(in)
      [] in.kind = "id3v2" -> Id3File(in)
      [] in.kind = "mp4" -> Mp4File(in)
      [] in.kind = "id3v1" -> Id3v1File(in)
      [] in.kind = "raw" -> in.payload

\* paths of files that can be opened: "foo_bar-baz.mp3", "music/a.wav",
\* "_.flac"
Paths ==
    {<<102, 111, 111, 95, 98, 97, 114, 45, 98, 97, 122, 46, 109, 112, 51>>,
     <<109, 117, 115, 105, 99, 47, 97, 46, 119, 97, 118>>,
     <<95, 46, 102, 108, 97, 99>>}

\* ------------------------------------------------------------------------
\* SongMetadata::from_file
\* ------------------------------------------------------------------------
\* the match without the `if &header[8..12] == b"WAVE"` guard
MatchArm_unguarded(header) ==
    IF Slice(header, 0, 4) = B_RIFF THEN "wav"
    ELSE IF Slice(header, 0, 4) = B_fLaC THEN "flac"
    ELSE IF Slice(header, 0, 4) = B_ID3 \o <<3>> \/ Slice(header, 0, 4) = B_ID3 \o <<4>>
    THEN "id3v2"
    ELSE "other"

\* the arm of `match &header[0..4]` a 12-byte header selects
MatchArm(header) ==
    IF Slice(header, 0, 4) = B_RIFF /\ Slice(header, 8, 12) = B_WAVE THEN "wav"
    ELSE IF Slice(header, 0, 4) = B_fLaC THEN "flac"
    ELSE IF Slice(header, 0, 4) = B_ID3 \o <<3>> \/ Slice(header, 0, 4) = B_ID3 \o <<4>>
    THEN "id3v2"
    ELSE "other"

Init ==
    /\ input \in Inputs
    /\ path \in Paths
    /\ bytes = FileOf(input)
    /\ overflow_checks \in BOOLEAN
    /\ pc = "open"
    /\ fpos = 0
    /\ scanner = ScanIdle
    /\ branch = "none"
    /\ meta = DefaultMeta
    /\ tag_meta = DefaultMeta
    /\ calls = <<>>
    /\ result = "pending"

\* lines 20-25: open, read the 12-byte header, rewind
ReadHeader ==
    /\ pc = "open"
    /\ IF Avail(bytes, 0, 12) < 12
       THEN /\ meta' = default_with_filename(path)
            /\ fpos' = AfterRead(bytes, 0, 12)
            /\ branch' = "short"
            /\ result' = "Ok"
            /\ pc' = "done"
       ELSE /\ branch' = MatchArm(Slice(bytes, 0, 12))
            /\ fpos' = 0
            /\ pc' = "tags"
            /\ UNCHANGED <<meta, result>>
    /\ UNCHANGED <<scanner, input, path, bytes, overflow_checks, tag_meta, calls>>

\* the tag pass of an arm ends: `?` returns the parser's error, a panic
\* unwinds, and a record goes on to the duration pass
TagPassEnds(r, called) ==
    /\ calls' = calls \o called
    /\ fpos' = r.pos
    /\ IF r.kind = "Ok"
       THEN /\ meta' = r.meta
            /\ tag_meta' = r.meta
            /\ pc' = "duration"
            /\ UNCHANGED result
       ELSE /\ result' = r.kind
            /\ pc' = "done"
            /\ UNCHANGED <<meta, tag_meta>>
    /\ UNCHANGED <<scanner, input, path, bytes, overflow_checks, branch>>

\* line 29
TagsWav ==
    /\ pc = "tags" /\ branch = "wav"
    /\ TagPassEnds(from_wav(bytes), <<"from_wav">>)

\* line 34
TagsFlac ==
    /\ pc = "tags" /\ branch = "flac"
    /\ TagPassEnds(from_flac(bytes, fpos), <<"from_flac">>)

\* line 39
TagsMp3v2 ==
    /\ pc = "tags" /\ branch = "id3v2"
    /\ TagPassEnds(from_mp3v2(bytes, fpos), <<"from_mp3v2">>)

\* lines 45-51: from_id3v1, else from_m4a on the same handle, else default
FallbackTags(data, pos) ==
    LET r1 == from_id3v1(data)
        r2 == from_m4a(data, r1.pos)
    IN IF r1.kind = "Ok" THEN r1
       ELSE IF r2.kind = "Ok" THEN r2
       ELSE Ok(DefaultMeta, r2.pos)

TagsOther ==
    /\ pc = "tags" /\ branch = "other"
    /\ TagPassEnds(FallbackTags(bytes, fpos),
                   IF from_id3v1(bytes).kind = "Ok" THEN <<"from_id3v1">>
                   ELSE <<"from_id3v1", "from_m4a">>)

\* the duration pass with `?` in place of `.ok()`: Err is returned
DurationPassEnds_propagating(d, called) ==
    /\ calls' = calls \o called
    /\ IF d.kind # "Ok"
       THEN /\ result' = d.kind
            /\ pc' = "done"
            /\ UNCHANGED meta
       ELSE /\ meta' = [meta EXCEPT !.duration_ms = Some(d.value)]
            /\ pc' = "title"
            /\ UNCHANGED result
    /\ fpos' = Len(bytes)
    /\ UNCHANGED <<scanner, input, path, bytes, overflow_checks, branch, tag_meta>>

\* the duration pass of an arm ends: `.ok()` turns Err into None
DurationPassEnds(d, called) ==
    /\ calls' = calls \o called
    /\ IF d.kind = "Panic"
       THEN /\ result' = "Panic"
            /\ pc' = "done"
            /\ UNCHANGED meta
       ELSE /\ meta' = [meta EXCEPT !.duration_ms =
                            IF d.kind = "Ok" THEN Some(d.value) ELSE None]
            /\ pc' = "title"
            /\ UNCHANGED result
    /\ fpos' = Len(bytes)
    /\ UNCHANGED <<scanner, input, path, bytes, overflow_checks, branch, tag_meta>>

\* line 30
DurationWav ==
    /\ pc = "duration" /\ branch = "wav"
    /\ DurationPassEnds(wav_duration(bytes), <<"wav_duration">>)

\* line 35
DurationFlac ==
    /\ pc = "duration" /\ branch = "flac"
    /\ DurationPassEnds(flac_duration(bytes), <<"flac_duration">>)

\* line 40
DurationMp3 ==
    /\ pc = "duration" /\ branch = "id3v2"
    /\ DurationPassEnds(mp3_duration(bytes), <<"mp3_duration">>)

\* line 53: m4a_duration(f).ok().or_else(|| mp3_duration(f).ok())
FallbackDuration(data) ==
    IF m4a_duration(data).kind = "Err" THEN mp3_duration(data) ELSE m4a_duration(data)

DurationOther ==
    /\ pc = "duration" /\ branch = "other"
    /\ DurationPassEnds(FallbackDuration(bytes),
                        IF m4a_duration(bytes).kind = "Err"
                        THEN <<"m4a_duration", "mp3_duration">>
                        ELSE <<"m4a_duration">>)

\* lines 58-63: the title falls back to the file name; Ok(meta)
FillTitle ==
    /\ pc = "title"
    /\ meta' = IF IsSome(meta.title) THEN meta
               ELSE [meta EXCEPT !.title = Some(prettify_filename(path))]
    /\ result' = "Ok"
    /\ pc' = "done"
    /\ UNCHANGED <<scanner, input, path, bytes, overflow_checks, fpos, branch, tag_meta,
                   calls>>

Next ==
    \/ ReadHeader
    \/ TagsWav
    \/ TagsFlac
    \/ TagsMp3v2
    \/ TagsOther
    \/ DurationWav
    \/ DurationFlac
    \/ DurationMp3
    \/ DurationOther
    \/ FillTitle

Spec == Init /\ [][Next]_vars

\* ------------------------------------------------------------------------
\* the loop of mp3_duration, one iteration per step
\* ------------------------------------------------------------------------
\* the loop body that leaves the cursor in place on a header it rejects
ScanStep_stuck(all, st) ==
    LET pos == st.pos
        b2 == At(all, pos + 1)
        b3 == At(all, pos + 2)
        version_bits == (b2 \div 8) % 4
        sample_rate == Mp3SampleRate(version_bits, (b3 \div 4) % 4)
        frame_size == Mp3FrameSize(version_bits, Mp3Bitrate(version_bits, b3 \div 16),
                                   sample_rate, (b3 \div 2) % 2)
    IN IF ~Mp3HeaderValid(all, pos)
       THEN [st EXCEPT !.iterations = @ + 1]
       ELSE IF pos + frame_size > Len(all)
       THEN [st EXCEPT !.iterations = @ + 1, !.broke = TRUE]
       ELSE [st EXCEPT !.pos = pos + frame_size, !.iterations = @ + 1,
                       !.total_samples = @ + Mp3SamplesPerFrame(version_bits),
                       !.last_sample_rate = sample_rate]

\* one pass through the body of `while pos + 4 <= all.len() && ...`
ScanStep(all, st) ==
    LET pos == st.pos
        b2 == At(all, pos + 1)
        b3 == At(all, pos + 2)
        version_bits == (b2 \div 8) % 4
        sample_rate == Mp3SampleRate(version_bits, (b3 \div 4) % 4)
        frame_size == Mp3FrameSize(version_bits, Mp3Bitrate(version_bits, b3 \div 16),
                                   sample_rate, (b3 \div 2) % 2)
    IN IF ~Mp3HeaderValid(all, pos)
       THEN [st EXCEPT !.pos = pos + 1, !.iterations = @ + 1]
       ELSE IF pos + frame_size > Len(all)
       THEN [st EXCEPT !.iterations = @ + 1, !.broke = TRUE]
       ELSE [st EXCEPT !.pos = pos + frame_size, !.iterations = @ + 1,
                       !.total_samples = @ + Mp3SamplesPerFrame(version_bits),
                       !.last_sample_rate = sample_rate]

\* longest buffer made of every combination of a few bytes
MaxScanLen == 5

ScanAlphabet == {255, 251, 144, 0}

\* an MPEG2.5 Layer III frame at 8 kbps and 12000 Hz: 48 bytes
Mp3MiniFrame == <<255, 227, 20, 0>> \o Zeros(44)

ScanBuffers ==
    UNION {[1..n -> ScanAlphabet] : n \in 0..MaxScanLen}
    \cup {in.payload : in \in FrameInputs}
    \cup {SubSeq(Mp3Frame, 1, 416), Mp3Frame \o SubSeq(Mp3Frame, 1, 416),
          Zeros(40), [i \in 1..20 |-> 255],
          Repeat(Mp3MiniFrame, 3),
          Repeat(Mp3MiniFrame, 2) \o <<0, 255, 0>> \o Mp3MiniFrame \o <<255, 227>>,
          B_ID3 \o <<3, 0, 0>> \o to_synchsafe(4) \o Zeros(4) \o Mp3MiniFrame,
          B_ID3 \o <<3, 0, 0>> \o to_synchsafe(1000) \o Zeros(4) \o Mp3MiniFrame}

InitScan ==
    /\ input \in {Input("raw", "scan", <<>>, -1, 0, 0, b) : b \in ScanBuffers}
    /\ path = <<97, 46, 109, 112, 51>>
    /\ bytes = FileOf(input)
    /\ overflow_checks = FALSE
    /\ pc = "scan"
    /\ fpos = 0
    /\ scanner = ScanLocals(Mp3Start(bytes), 0, 0, 0, FALSE)
    /\ branch = "other"
    /\ meta = DefaultMeta
    /\ tag_meta = DefaultMeta
    /\ calls = <<"mp3_duration">>
    /\ result = "pending"

\* the loop condition holds and the body runs once
ScanIteration ==
    /\ pc = "scan"
    /\ ~scanner.broke
    /\ scanner.pos + 4 <= Len(bytes)
    /\ scanner.iterations < Len(bytes) * 2
    /\ scanner' = ScanStep(bytes, scanner)
    /\ UNCHANGED <<input, path, bytes, overflow_checks, pc, fpos, branch, meta,
                   tag_meta, calls, result>>

\* the loop is left: by `break`, or because its condition fails
ScanEnds ==
    /\ pc = "scan"
    /\ \/ scanner.broke
       \/ scanner.pos + 4 > Len(bytes)
       \/ scanner.iterations >= Len(bytes) * 2
    /\ pc' = "scanned"
    /\ UNCHANGED <<scanner, input, path, bytes, overflow_checks, fpos, branch, meta,
                   tag_meta, calls, result>>

NextScan == ScanIteration \/ ScanEnds

\* the loop is sequential code: a step that can be taken is taken
ScanSpec == InitScan /\ [][NextScan]_vars /\ WF_vars(NextScan)

\* ------------------------------------------------------------------------
\* decode_text_frame on its own: a selector byte and a short body
\* ------------------------------------------------------------------------
MaxBodyLen == 3

\* NUL, 'A', and 0xE9 (e-acute in Latin-1, not a UTF-8 sequence by itself)
BodyAlphabet == {0, 65, 233}

FramePayloads ==
    {<<>>}
    \cup {<<e>> \o body : e \in Id3Selectors,
                          body \in UNION {[1..n -> BodyAlphabet] : n \in 0..MaxBodyLen}}

InitDecode ==
    /\ input \in {Input("raw", "frame-payload", <<>>, -1, 0, 0, d) : d \in FramePayloads}
    /\ path = <<97, 46, 109, 112, 51>>
    /\ bytes = FileOf(input)
    /\ overflow_checks = FALSE
    /\ pc = "decode"
    /\ fpos = 0
    /\ scanner = ScanIdle
    /\ branch = "id3v2"
    /\ meta = DefaultMeta
    /\ tag_meta = DefaultMeta
    /\ calls = <<>>
    /\ result = "pending"

\* `meta.title = decode_text_frame(frame)` on the frame payload `bytes`
DecodeTextFrame ==
    /\ pc = "decode"
    /\ tag_meta' = Id3Field(tag_meta, B_TIT2, decode_text_frame(bytes))
    /\ pc' = "decoded"
    /\ UNCHANGED <<scanner, input, path, bytes, overflow_checks, fpos, branch, meta,
                   calls, result>>

DecodeSpec == InitDecode /\ [][DecodeTextFrame]_vars

\* ------------------------------------------------------------------------
\* from_m4a on its own, reading a buffer from its first byte
\* ------------------------------------------------------------------------
InitM4a ==
    /\ input \in Mp4TextInputs
    /\ path = <<97, 46, 109, 52, 97>>
    /\ bytes = FileOf(input)
    /\ overflow_checks = FALSE
    /\ pc = "m4a"
    /\ fpos = 0
    /\ scanner = ScanIdle
    /\ branch = "other"
    /\ meta = DefaultMeta
    /\ tag_meta = DefaultMeta
    /\ calls = <<>>
    /\ result = "pending"

\* from_m4a(&mut f) with the cursor at fpos
ParseM4a ==
    /\ pc = "m4a"
    /\ tag_meta' = from_m4a(bytes, fpos).meta
    /\ fpos' = from_m4a(bytes, fpos).pos
    /\ calls' = calls \o <<"from_m4a">>
    /\ pc' = "m4a-parsed"
    /\ UNCHANGED <<scanner, input, path, bytes, overflow_checks, branch, meta, result>>

NextM4a == ParseM4a

M4aSpec == InitM4a /\ [][NextM4a]_vars

\* ------------------------------------------------------------------------
\* prettify_filename on its own: every short path over 'a', 's-sharp', '_',
\* '-', ' ', '.', '/', and a few longer ones
\* ------------------------------------------------------------------------
MaxPathLen == 4

PathAlphabet == {97, 223, 95, 45, 32, 46, 47}

\* "foo_bar-baz.mp3", "a\tb_c.d", "x\u{a0}y", "music/my-song_1.tar.gz",
\* "dir/../"
LongPaths ==
    {<<102, 111, 111, 95, 98, 97, 114, 45, 98, 97, 122, 46, 109, 112, 51>>,
     <<97, 9, 98, 95, 99, 46, 100>>,
     <<120, 160, 121>>,
     <<109, 117, 115, 105, 99, 47, 109, 121, 45, 115, 111, 110, 103, 95, 49,
       46, 116, 97, 114, 46, 103, 122>>,
     <<100, 105, 114, 47, 46, 46, 47>>}

PrettifyPaths == UNION {[1..n -> PathAlphabet] : n \in 0..MaxPathLen} \cup LongPaths

InitPrettify ==
    /\ input = Input("raw", "bytes", <<>>, -1, 0, 0, <<>>)
    /\ path \in PrettifyPaths
    /\ bytes = <<>>
    /\ overflow_checks = FALSE
    /\ pc = "prettify"
    /\ fpos = 0
    /\ scanner = ScanIdle
    /\ branch = "none"
    /\ meta = DefaultMeta
    /\ tag_meta = DefaultMeta
    /\ calls = <<>>
    /\ result = "pending"

\* default_with_filename(path): the title is prettify_filename(path)
PrettifyFilename ==
    /\ pc = "prettify"
    /\ meta' = default_with_filename(path)
    /\ pc' = "prettified"
    /\ UNCHANGED <<scanner, input, path, bytes, overflow_checks, fpos, branch, tag_meta,
                   calls, result>>

NextPrettify == PrettifyFilename

PrettifySpec == InitPrettify /\ [][NextPrettify]_vars

\* ------------------------------------------------------------------------
\* Properties
\* ------------------------------------------------------------------------
\* from_file has returned Ok(meta)
Returned == pc = "done" /\ result = "Ok"

TextFields == {"artist", "title", "album", "genre"}

\* the bytes of lit stand at offset off (0-based) of the file
HasBytesAt(off, lit) ==
    /\ off >= 0
    /\ Len(bytes) >= off + Len(lit)
    /\ \A i \in 1..Len(lit) : bytes[off + i] = lit[i]

DurationEstimators == {"wav_duration", "flac_duration", "m4a_duration", "mp3_duration"}

\* the tag pass returned a record: a duration estimator was invoked
DurationPassReached == \E i \in 1..Len(calls) : calls[i] \in DurationEstimators

\* every duration estimator of the chosen arm returns Err on this file
EstimatorsFail ==
    CASE branch = "wav" -> wav_duration(bytes).kind = "Err"
      [] branch = "flac" -> flac_duration(bytes).kind = "Err"
      [] branch = "id3v2" -> mp3_duration(bytes).kind = "Err"
      [] branch = "other" ->
             m4a_duration(bytes).kind = "Err" /\ mp3_duration(bytes).kind = "Err"
      [] OTHER -> FALSE

\* C1: for every file that can be opened, whatever its bytes, from_file
\* returns a record and never an error.
C1_NeverErr == pc = "done" => result # "Err"

\* C2: for every byte content, no parser or estimator reached from from_file
\* panics (index out of bounds, unsigned subtraction below zero).
C2_NeverPanics == pc = "done" => result # "Panic"

\* a minimally valid file of one of the four containers carrying the known
\* non-empty values "Ar", "Ti", "Al", "Ge"
MinimallyValid ==
    /\ input.tags = BaseTags
    /\ input.declared = -1
    /\ \/ input.kind = "wav" /\ WavHasList(input) /\ input.amount = Len(input.payload)
       \/ input.kind = "flac" /\ input.layout = "streaminfo-vorbis"
       \/ input.kind = "id3v2" /\ input.amount \in {3, 4} /\ input.rate = 0
       \/ input.kind = "mp4" /\ input.layout \in {"ftyp-tags-moov", "ftyp-moov-tags", "ftyp-tags"}

\* C3: from_file on a minimally valid WAV, FLAC, ID3v2.3/2.4 or MP4 file
\* carrying known non-empty artist, title, album and genre returns a record
\* whose four text fields are exactly those values.
C3_RoundTrip ==
    (pc = "done" /\ MinimallyValid) =>
        /\ result = "Ok"
        /\ \A f \in TextFields : meta[f] = TagValue(input.tags, f)

\* C4: every record from_file returns has a title: the one the tag parser
\* supplied, and otherwise (also for files shorter than 12 bytes) the
\* prettified file name.
C4_TitlePresent ==
    Returned =>
        /\ IsSome(meta.title)
        /\ meta.title = IF IsSome(tag_meta.title) THEN tag_meta.title
                        ELSE Some(prettify_filename(path))

\* C4 witness: a record returned by a tag parser that found an artist but no
\* title, so that the title is the prettified file name
C4_Witness ==
    /\ Returned
    /\ branch # "short"
    /\ ~IsSome(tag_meta.title)
    /\ IsSome(tag_meta.artist)

\* C5: no text field of a returned record is present with an empty or
\* whitespace-only string: a tag value that is empty or whitespace-only
\* after decoding leaves its field absent.
C5_NoBlankField ==
    Returned =>
        \A f \in TextFields :
            IsSome(tag_meta[f]) => IsSome(meta[f]) /\ ~IsBlank(Unwrap(meta[f]))

\* the arm the first 12 bytes of the file select, read off the bytes
ExpectedArm ==
    IF HasBytesAt(0, B_RIFF) /\ HasBytesAt(8, B_WAVE) THEN "wav"
    ELSE IF HasBytesAt(0, B_fLaC) THEN "flac"
    ELSE IF HasBytesAt(0, B_ID3) /\ bytes[4] \in {3, 4} THEN "id3v2"
    ELSE "other"

\* the parsers and estimators an arm may invoke, in order
ExpectedCalls(arm) ==
    CASE arm = "wav" -> {<<"from_wav">>, <<"from_wav", "wav_duration">>}
      [] arm = "flac" -> {<<"from_flac">>, <<"from_flac", "flac_duration">>}
      [] arm = "id3v2" -> {<<"from_mp3v2">>, <<"from_mp3v2", "mp3_duration">>}
      [] arm = "other" ->
             {<<"from_id3v1", "m4a_duration">>,
              <<"from_id3v1", "m4a_duration", "mp3_duration">>,
              <<"from_id3v1", "from_m4a", "m4a_duration">>,
              <<"from_id3v1", "from_m4a", "m4a_duration", "mp3_duration">>}

\* C6: for a file of at least 12 bytes the first 12 bytes alone select the
\* tag parser and the duration estimator(s); a file with fewer than 12 bytes
\* yields a record with only the file name's title.
C6_Dispatch ==
    pc = "done" =>
        IF Len(bytes) < 12
        THEN /\ calls = <<>>
             /\ result = "Ok"
             /\ meta = [DefaultMeta EXCEPT !.title = Some(prettify_filename(path))]
        ELSE /\ calls \in ExpectedCalls(ExpectedArm)
             /\ Returned => Len(calls) >= 2

\* C6 witness: a RIFF file that is not WAVE went through the fallback arm
C6_Witness ==
    /\ pc = "done"
    /\ HasBytesAt(0, B_RIFF)
    /\ ~HasBytesAt(8, B_WAVE)
    /\ Len(bytes) >= 12
    /\ calls[1] = "from_id3v1"

\* an unrecognized header with no "TAG" trailer and no recognized MP4 atom
NoTagsAnywhere ==
    /\ Len(bytes) >= 12
    /\ ExpectedArm = "other"
    /\ ~HasBytesAt(Len(bytes) - 128, B_TAG)
    /\ M4aAtoms(bytes, 0, DefaultMeta) = DefaultMeta

\* C7 as stated: with an unrecognized header and no tags, ID3v1 is tried
\* before the MP4 scan and the record has no artist, album, genre and no
\* duration_ms.
C7_EmptyRecord ==
    (Returned /\ NoTagsAnywhere) =>
        /\ SubSeq(calls, 1, 2) = <<"from_id3v1", "from_m4a">>
        /\ meta.artist = None /\ meta.album = None /\ meta.genre = None
        /\ meta.title = Some(prettify_filename(path))
        /\ meta.duration_ms = None

\* C7 as amended: with an unrecognized header and no tags, ID3v1 is tried
\* before the MP4 scan and the record has no artist, album and genre and the
\* synthesized title; duration_ms is present (the MPEG scanner estimates it
\* from the file size when nothing else gives one).
C7_EmptyTagsWithDuration ==
    (Returned /\ NoTagsAnywhere) =>
        /\ SubSeq(calls, 1, 2) = <<"from_id3v1", "from_m4a">>
        /\ meta.artist = None /\ meta.album = None /\ meta.genre = None
        /\ meta.title = Some(prettify_filename(path))
        /\ IsSome(meta.duration_ms)

\* C7 witness: such a file, whose duration came from the MPEG scanner
C7_Witness ==
    /\ Returned
    /\ NoTagsAnywhere
    /\ calls = <<"from_id3v1", "from_m4a", "m4a_duration", "mp3_duration">>

\* C8 as stated: when the estimators of the arm fail, the record is still
\* returned, with exactly the tag pass's artist, title, album and genre and
\* no duration_ms.
C8_TagsSurviveExactly ==
    (pc = "done" /\ DurationPassReached /\ EstimatorsFail) =>
        /\ result = "Ok"
        /\ \A f \in TextFields : meta[f] = tag_meta[f]
        /\ meta.duration_ms = None

\* C8 as amended: when the estimators of the arm fail, the record is still
\* returned, with the tag pass's artist, album and genre, the tag pass's
\* title or else the prettified file name, and no duration_ms.
C8_TagsSurvive ==
    (pc = "done" /\ DurationPassReached /\ EstimatorsFail) =>
        /\ result = "Ok"
        /\ \A f \in TextFields \ {"title"} : meta[f] = tag_meta[f]
        /\ meta.title = IF IsSome(tag_meta.title) THEN tag_meta.title
                        ELSE Some(prettify_filename(path))
        /\ meta.duration_ms = None

\* C8 witness: a record returned with tags after the estimator failed
C8_Witness ==
    /\ Returned
    /\ DurationPassReached
    /\ EstimatorsFail
    /\ IsSome(tag_meta.artist)
    /\ IsSome(tag_meta.title)

\* C9: a FLAC file whose STREAMINFO follows the FLAC layout, with a nonzero
\* sample rate, gets duration floor(total_samples * 1000 / sample_rate).
C9_FlacDuration ==
    (pc = "done" /\ input.kind = "flac" /\ FlacHasStreamInfo(input)
     /\ input.declared = -1 /\ input.rate # 0) =>
        flac_duration(bytes) =
            DurOk(MulDiv1000(FlacInputTotal(input), BFromInt(input.rate)))

\* C10: a WAV file with a "fmt " chunk of nonzero byte rate and a "data"
\* chunk gets duration floor(data_size * 1000 / byte_rate), whatever the
\* bytes of the data chunk's payload.
C10_WavDuration ==
    (pc = "done" /\ input.kind = "wav" /\ WavHasFmt(input) /\ WavHasData(input)
     /\ input.declared = -1 /\ input.rate # 0) =>
        wav_duration(bytes) =
            DurOk(MulDiv1000(BFromInt(input.amount), BFromInt(input.rate)))

\* C11: an MP4 file whose moov holds an mvhd (version 0 or 1) with a nonzero
\* timescale gets duration floor(duration_field * 1000 / timescale), for
\* every 32-bit (version 0) and every 64-bit (version 1) duration field.
C11_M4aDuration ==
    (pc = "done" /\ input.kind = "mp4" /\ Mp4HasMvhd(input) /\ input.rate # 0) =>
        m4a_duration(bytes) =
            DurOk(MulDiv1000(Mp4InputDuration(input), BFromInt(input.rate)))

\* C12: mp3_duration on a buffer of exactly N >= 1 consecutive MPEG1 Layer
\* III frames at 128 kbps and 44100 Hz returns floor(N * 1152 * 1000 / 44100).
C12_MpegFrames ==
    (pc = "done" /\ input.layout = "frames") =>
        mp3_duration(bytes) = DurOk(BFromInt((input.amount * 1152 * 1000) \div 44100))

\* C12 witness: a record for two frames, one of them padded, whose duration
\* is the scanner's 52 ms
C12_Witness ==
    /\ Returned
    /\ input.layout = "frames"
    /\ input.amount = 2
    /\ Len(bytes) = 417 + 418
    /\ calls[Len(calls)] = "mp3_duration"
    /\ meta.duration_ms = Some(BFromInt(52))

\* C13: synchsafe_to_u32 of the four size bytes b0..b3 of an ID3v2 header
\* is (b0 & 0x7F) * 2^21 + (b1 & 0x7F) * 2^14 + (b2 & 0x7F) * 2^7 + (b3 & 0x7F),
\* below 2^28; 00 00 02 01 gives 257 and 7F 7F 7F 7F gives 0x0FFFFFFF.
C13_Synchsafe ==
    (pc = "done" /\ input.layout = "id3-header") =>
        LET b == Slice(bytes, 6, 10)
            v == synchsafe_to_u32(b)
        IN /\ v = (b[1] % 128) * 2097152 + (b[2] % 128) * 16384
                   + (b[3] % 128) * 128 + (b[4] % 128)
           /\ v < 268435456
           /\ b = <<0, 0, 2, 1>> => v = 257
           /\ b = <<127, 127, 127, 127>> => v = 268435455

\* C13 witness: size bytes 80 80 80 80 were read as an empty tag, so that
\* from_mp3v2 returned a record
C13_Witness ==
    /\ Returned
    /\ input.layout = "id3-header"
    /\ Slice(bytes, 6, 10) = <<128, 128, 128, 128>>
    /\ calls = <<"from_mp3v2", "mp3_duration">>

\* the stem of the path with '_' and '-' turned into spaces
SpacedStem(p) ==
    LET stem == IF IsSome(file_stem(p)) THEN Unwrap(file_stem(p)) ELSE S_Unknown
    IN [i \in 1..Len(stem) |-> IF stem[i] \in {95, 45} THEN 32 ELSE stem[i]]

\* what position i of the spaced stem t contributes to the title: a character
\* that starts a word is upper-cased, any other character of a word is kept,
\* and a run of whitespace between two words gives one space
TitlePiece(t, i) ==
    IF IsWhitespace(t[i])
    THEN IF /\ i > 1 /\ ~IsWhitespace(t[i - 1])
            /\ \E j \in (i + 1)..Len(t) : ~IsWhitespace(t[j])
         THEN <<32>> ELSE <<>>
    ELSE IF i = 1 \/ IsWhitespace(t[i - 1]) THEN to_uppercase(t[i]) ELSE <<t[i]>>

\* C14: prettify_filename takes the stem of the file name, turns '_' and '-'
\* into spaces, upper-cases the first character of each word, keeps the rest
\* and joins the words with single spaces; "foo_bar-baz.mp3" gives
\* "Foo Bar Baz", a path without a stem gives "Unknown"; the result has no
\* '_', no '-', no leading, trailing or doubled space.
C14_Prettify ==
    pc = "prettified" =>
        LET r == Unwrap(meta.title)
            t == SpacedStem(path)
        IN /\ r = Concat([i \in 1..Len(t) |-> TitlePiece(t, i)])
           /\ path = <<102, 111, 111, 95, 98, 97, 114, 45, 98, 97, 122, 46, 109, 112, 51>>
                  => r = <<70, 111, 111, 32, 66, 97, 114, 32, 66, 97, 122>>
           /\ path \in {<<>>, <<47>>, <<46>>, <<46, 46>>, <<97, 47, 46, 46>>}
                  => r = S_Unknown
           /\ \A i \in 1..Len(r) : r[i] # 95 /\ r[i] # 45
           /\ r # <<>> => r[1] # 32 /\ r[Len(r)] # 32
           /\ \A i \in 1..(Len(r) - 1) : ~(r[i] = 32 /\ r[i + 1] = 32)

\* C14 witness: "a-_a" became "A A"
C14_Witness ==
    /\ pc = "prettified"
    /\ path = <<97, 45, 95, 97>>
    /\ meta.title = Some(<<65, 32, 65>>)

\* the text of the last frame of field f whose encoding selector is 0 or 1
Id3LastDecodable(in, f) ==
    LET ok == {i \in 1..Len(in.tags) : in.tags[i][1] = f /\ in.payload[i] \in {0, 1}}
    IN IF ok = {} THEN None
       ELSE Some(in.tags[CHOOSE i \in ok : \A j \in ok : i >= j][2])

\* C15: in the ID3v2 frame scan a TIT2/TPE1/TALB/TCON frame whose encoding
\* selector is neither 0 nor 1 is skipped: the field keeps the text of the
\* last frame of its ID that decodes (or stays absent), and the frames after
\* it are read.
C15_UnknownEncodingSkipped ==
    (pc = "done" /\ input.layout = "tag-mixed") =>
        /\ result = "Ok"
        /\ \A f \in TextFields : tag_meta[f] = Id3LastDecodable(input, f)

\* C16: m4a_duration fails when the mvhd atom's declared size is too small
\* to hold the timescale and duration of its version, also when other atoms
\* follow it: no field is taken from bytes outside the mvhd atom.
C16_TruncatedMvhdFails ==
    (pc = "done" /\ input.layout \in Mp4LayoutsShort) =>
        m4a_duration(bytes).kind = "Err"

\* the payload of the one top-level atom of the buffer
TextAtomPayload == Slice(bytes, 8, Len(bytes))

DataAtomStart(in) == IF in.layout = "text-free-data16" THEN 12 ELSE 0

DataAtomEnd(in) ==
    IF in.layout = "text-data16-free" THEN Len(Mp4TextPayload(in.layout, in.tags[1][2])) - 12
    ELSE Len(Mp4TextPayload(in.layout, in.tags[1][2]))

C18_ScanTerminates ==
    /\ [](scanner.iterations <= 2 * Len(bytes))
    /\ [][(pc = "scan" /\ scanner' # scanner) =>
             /\ scanner'.iterations = scanner.iterations + 1
             /\ \/ /\ ~scanner'.broke
                   /\ scanner'.pos = scanner.pos + 1
                   /\ scanner'.total_samples = scanner.total_samples
                \/ /\ ~scanner'.broke
                   /\ scanner'.pos > scanner.pos
                   /\ scanner'.pos <= Len(bytes)
                   /\ scanner'.total_samples > scanner.total_samples
                \/ /\ scanner'.broke
                   /\ scanner'.total_samples = scanner.total_samples]_vars
    /\ <>(pc = "scanned")

\* C18 witness: the loop ended at a second frame cut one byte short, with
\* the first frame's samples only
C18_Witness ==
    /\ pc = "scanned"
    /\ Len(bytes) = 417 + 416
    /\ scanner.broke
    /\ scanner.pos = 417
    /\ scanner.total_samples = 1152
    /\ scanner.iterations = 2

\* s without its leading and trailing NUL characters
WithoutOuterNuls(s) ==
    LET kept == {i \in 1..Len(s) : s[i] # 0}
        lo == CHOOSE i \in kept : \A j \in kept : i <= j
        hi == CHOOSE i \in kept : \A j \in kept : i >= j
    IN IF kept = {} THEN <<>> ELSE SubSeq(s, lo, hi)

\* C19: decode_text_frame with selector 0 turns every byte b of the rest of
\* the payload into the character with code point b (Latin-1) and trims
\* NULs; with selector 1 it reads the rest as big-endian UTF-16 code units,
\* dropping a trailing odd byte; with any other selector, or an empty
\* payload, it yields no text.
C19_DecodeTextFrame ==
    pc = "decoded" =>
        LET rest == IF bytes = <<>> THEN <<>> ELSE Tail(bytes)
            units == [i \in 1..(Len(rest) \div 2) |-> rest[2 * i - 1] * 256 + rest[2 * i]]
        IN tag_meta.title =
               IF bytes = <<>> THEN None
               ELSE IF bytes[1] = 0 THEN Some(WithoutOuterNuls(rest))
               ELSE IF bytes[1] = 1 THEN Some(WithoutOuterNuls(units))
               ELSE None

====
